---- MODULE Spec2Model ----
(***************************************************************************)
(* Verification model of the Zephyr CI job execution engine.               *)
(*                                                                         *)
(*   - DAG engine      packages/core  scheduler/dag.ts                     *)
(*   - VM manager      packages/vm    firecracker/manager.ts               *)
(*   - Scheduler       packages/server (dispatch loop, global cap)         *)
(*   - Guest agent     agent/src/index.ts (executeJob, executeCommand)      *)
(*   - Log store       packages/storage db.ts (appendLog, getLogsForJob)    *)
(*   - Record store    packages/storage db.ts (pipeline runs, job queue)    *)
(*   - Network         packages/vm    firecracker/network.ts               *)
(*   - Webhooks        packages/server webhooks/github.ts                   *)
(*   - Local run       packages/cli   commands/run.ts                       *)
(*   - Parallel layers packages/core  index.ts (getParallelLayers)          *)
(*   - Cache manager   packages/storage cache manager (save, restore, has)  *)
(***************************************************************************)
EXTENDS Integers, Sequences, FiniteSets, TLC

(***************************************************************************)
(* Bounds                                                                  *)
(***************************************************************************)
MaxNodes == 3
MaxEdges == 3

MaxVms == 2
MaxProcs == 2
MaxDrives == 1
MaxNics == 1

MaxRuns == 2

MaxSteps == 2
MaxChunks == 2

MaxLogJobs == 2
MaxLogs == 3

MaxRunRows == 1
MaxJobRows == 2
MaxClock == 2

MaxSlots == 3
MaxRules == 3
MaxReleases == 2

MaxTriggers == 2
MaxFilters == 2

MaxBody == 2

MaxCliJobs == 2
MaxDeclarations == 2
MaxSkipJobs == 4

MaxCacheClock == 3

VARIABLES jobs, built, status, newlyReady, order,
          instances, procs, socket, vmOp,
          options, maxConcurrentJobs, pipelines, runStatus, runJobs, inflight,
          job, iter, results, failed, jobResult, exec, chunks,
          jobRows, logRows, logSeq, appended, since, received,
          runTable, jobTable, unixepoch, reopened,
          links, masquerade, forwardOut, forwardIn, ipForward, configs, releases,
          payload, triggers, triggered,
          secret, body, signed, signature, tampered, verified,
          jobDefs, runOptions, sortedJobs, runResults, ranJobs, runFailed,
          runIter, exitCode, errorLogged,
          vmConfig, apiCalls,
          cacheEntries, cacheClock, cacheOp,
          layers

dagVars == <<jobs, built, status, newlyReady, order>>
vmVars == <<instances, procs, socket, vmOp>>
schedVars == <<options, maxConcurrentJobs, pipelines, runStatus, runJobs, inflight>>
agentVars == <<job, iter, results, failed, jobResult, exec, chunks>>
storeVars == <<jobRows, logRows, logSeq, appended, since, received>>
recordVars == <<runTable, jobTable, unixepoch, reopened>>
netVars == <<links, masquerade, forwardOut, forwardIn, ipForward, configs, releases>>
hookVars == <<payload, triggers, triggered>>
sigVars == <<secret, body, signed, signature, tampered, verified>>
cliVars == <<jobDefs, runOptions, sortedJobs, runResults, ranJobs, runFailed,
             runIter, exitCode, errorLogged>>
configVars == <<vmConfig, apiCalls>>
cacheVars == <<cacheEntries, cacheClock, cacheOp>>
viewVars == <<layers>>
vars == <<jobs, built, status, newlyReady, order,
          instances, procs, socket, vmOp,
          options, maxConcurrentJobs, pipelines, runStatus, runJobs, inflight,
          job, iter, results, failed, jobResult, exec, chunks,
          jobRows, logRows, logSeq, appended, since, received,
          runTable, jobTable, unixepoch, reopened,
          links, masquerade, forwardOut, forwardIn, ipForward, configs, releases,
          payload, triggers, triggered,
          secret, body, signed, signature, tampered, verified,
          jobDefs, runOptions, sortedJobs, runResults, ranJobs, runFailed,
          runIter, exitCode, errorLogged,
          vmConfig, apiCalls,
          cacheEntries, cacheClock, cacheOp,
          layers>>

\* What the actions of one component leave alone.
outsideDag ==
  <<vmVars, schedVars, agentVars, storeVars, recordVars,
    netVars, hookVars, sigVars, cliVars, configVars, cacheVars, viewVars>>
outsideVm ==
  <<dagVars, schedVars, agentVars, storeVars, recordVars,
    netVars, hookVars, sigVars, cliVars, configVars, cacheVars, viewVars>>
outsideSched ==
  <<dagVars, vmVars, agentVars, storeVars, recordVars,
    netVars, hookVars, sigVars, cliVars, configVars, cacheVars, viewVars>>
outsideAgent ==
  <<dagVars, vmVars, schedVars, storeVars, recordVars,
    netVars, hookVars, sigVars, cliVars, configVars, cacheVars, viewVars>>
outsideStore ==
  <<dagVars, vmVars, schedVars, agentVars, recordVars,
    netVars, hookVars, sigVars, cliVars, configVars, cacheVars, viewVars>>
outsideRecords ==
  <<dagVars, vmVars, schedVars, agentVars, storeVars,
    netVars, hookVars, sigVars, cliVars, configVars, cacheVars, viewVars>>
outsideNet ==
  <<dagVars, vmVars, schedVars, agentVars, storeVars,
    recordVars, hookVars, sigVars, cliVars, configVars, cacheVars, viewVars>>
outsideHook ==
  <<dagVars, vmVars, schedVars, agentVars, storeVars,
    recordVars, netVars, sigVars, cliVars, configVars, cacheVars, viewVars>>
outsideSig ==
  <<dagVars, vmVars, schedVars, agentVars, storeVars,
    recordVars, netVars, hookVars, cliVars, configVars, cacheVars, viewVars>>
outsideCli ==
  <<dagVars, vmVars, schedVars, agentVars, storeVars,
    recordVars, netVars, hookVars, sigVars, configVars, cacheVars, viewVars>>
outsideConfig ==
  <<dagVars, schedVars, agentVars, storeVars, recordVars,
    netVars, hookVars, sigVars, cliVars, cacheVars, viewVars>>
outsideCache ==
  <<dagVars, vmVars, schedVars, agentVars, storeVars,
    recordVars, netVars, hookVars, sigVars, cliVars, configVars, viewVars>>
outsideView ==
  <<dagVars, vmVars, schedVars, agentVars, storeVars,
    recordVars, netVars, hookVars, sigVars, cliVars, configVars, cacheVars>>

(***************************************************************************)
(* DAG engine: data                                                        *)
(***************************************************************************)
\* Job ids in Map insertion order; UnknownJob is a name no node carries.
Ids == 1..MaxNodes
UnknownJob == 0
Names == Ids \cup {UnknownJob}

JobStatus == {"pending", "ready", "running", "success", "failure", "skipped", "cancelled"}
Terminal == {"success", "failure", "skipped", "cancelled"}

Range(s) == {s[i] : i \in 1..Len(s)}

\* The element of a one-element set: {e(r) : r \in {x}} computes x once.
Value(S) == CHOOSE v \in S : TRUE

RECURSIVE dependsOnEntries(_, _)
\* The dependsOn entries of the nodes 1..n, counted.
dependsOnEntries(dag, n) ==
  IF n = 0 THEN 0 ELSE Len(dag[n]) + dependsOnEntries(dag, n - 1)

(***************************************************************************)
(* validateDag                                                             *)
(***************************************************************************)
RECURSIVE hasCycle(_, _, _)
RECURSIVE hasCycleDeps(_, _, _, _)

\* hasCycle that never removes a node from the recursion stack.
hasCycleNoStackPop(dag, jobId, st) ==
  IF jobId \in st.recursionStack THEN [st EXCEPT !.found = TRUE]
  ELSE IF jobId \in st.visited THEN [st EXCEPT !.found = FALSE]
  ELSE hasCycleDeps(dag, dag[jobId], 1,
                    [visited |-> st.visited \cup {jobId},
                     recursionStack |-> st.recursionStack \cup {jobId},
                     found |-> FALSE])

\* st = [visited, recursionStack, found]; found is the boolean the call returns.
hasCycle(dag, jobId, st) ==
  IF jobId \in st.recursionStack THEN [st EXCEPT !.found = TRUE]
  ELSE IF jobId \in st.visited THEN [st EXCEPT !.found = FALSE]
  ELSE LET st1 == [visited |-> st.visited \cup {jobId},
                   recursionStack |-> st.recursionStack \cup {jobId},
                   found |-> FALSE]
       IN Value({IF r.found THEN r
                 ELSE [r EXCEPT !.recursionStack = r.recursionStack \ {jobId}] :
                 r \in {hasCycleDeps(dag, dag[jobId], 1, st1)}})

hasCycleDeps(dag, deps, i, st) ==
  IF i > Len(deps) THEN [st EXCEPT !.found = FALSE]
  ELSE Value({IF r.found THEN r ELSE hasCycleDeps(dag, deps, i + 1, r) :
              r \in {hasCycle(dag, deps[i], st)}})

RECURSIVE cycleLoop(_, _, _)
\* for (const jobId of dag.keys()) if (hasCycle(jobId)) throw
cycleLoop(dag, jobId, st) ==
  IF jobId > MaxNodes THEN FALSE
  ELSE \E r \in {hasCycle(dag, jobId, st)} :
         IF r.found THEN TRUE ELSE cycleLoop(dag, jobId + 1, r)

missingDependency(dag) ==
  \E id \in Ids : \E i \in 1..Len(dag[id]) : dag[id][i] \notin Ids

\* "ok", or the error validateDag throws.
validateDag(dag) ==
  IF missingDependency(dag) THEN "unknown job"
  ELSE IF cycleLoop(dag, 1, [visited |-> {}, recursionStack |-> {}, found |-> FALSE])
       THEN "circular dependency"
       ELSE "ok"

\* Statuses buildDag returns for a valid graph.
buildDagStatus(dag) ==
  [id \in Ids |-> IF Len(dag[id]) = 0 THEN "ready" ELSE "pending"]

(***************************************************************************)
(* markJobCompleted / skipDependentJobs / cancelAllJobs                    *)
(***************************************************************************)
\* some() where the code uses every().
someDepComplete(dag, st, id) ==
  \E i \in 1..Len(dag[id]) : st[dag[id][i]] = "success"

allDepsComplete(dag, st, id) ==
  \A i \in 1..Len(dag[id]) : st[dag[id][i]] = "success"

RECURSIVE readyLoop(_, _, _)
\* The loop over dag.values() on the success branch; acc = [status, newlyReady].
readyLoop(dag, id, acc) ==
  IF id > MaxNodes THEN acc
  ELSE IF acc.status[id] = "pending" /\ allDepsComplete(dag, acc.status, id)
       THEN readyLoop(dag, id + 1,
                      [status |-> [acc.status EXCEPT ![id] = "ready"],
                       newlyReady |-> Append(acc.newlyReady, id)])
       ELSE readyLoop(dag, id + 1, acc)

RECURSIVE findDependents(_, _, _)
RECURSIVE findDependentsLoop(_, _, _, _)

findDependents(dag, jobId, toSkip) == findDependentsLoop(dag, jobId, 1, toSkip)

findDependentsLoop(dag, jobId, j, toSkip) ==
  IF j > MaxNodes THEN toSkip
  ELSE IF jobId \in Range(dag[j]) /\ j \notin toSkip
       THEN findDependentsLoop(dag, jobId, j + 1, findDependents(dag, j, toSkip \cup {j}))
       ELSE findDependentsLoop(dag, jobId, j + 1, toSkip)

\* Skips the direct dependents only.
skipDirectDependents(dag, st, failedJobId) ==
  [id \in Ids |-> IF failedJobId \in Range(dag[id]) /\ st[id] \in {"pending", "ready"}
                  THEN "skipped" ELSE st[id]]

\* Skips every dependent that is not terminal, a running one included.
skipDependentJobsNonTerminal(dag, st, failedJobId) ==
  LET toSkip == findDependents(dag, failedJobId, {})
  IN [id \in Ids |-> IF id \in toSkip /\ st[id] \in {"pending", "ready", "running"}
                     THEN "skipped" ELSE st[id]]

skipDependentJobs(dag, st, failedJobId) ==
  LET toSkip == findDependents(dag, failedJobId, {})
  IN [id \in Ids |-> IF id \in toSkip /\ st[id] \in {"pending", "ready"}
                     THEN "skipped" ELSE st[id]]

\* markJobCompleted that leaves the dependents of a failed job as they are.
markJobCompletedWithoutSkip(dag, st, jobId, success) ==
  LET st1 == [st EXCEPT ![jobId] = IF success THEN "success" ELSE "failure"]
  IN IF success
     THEN readyLoop(dag, 1, [status |-> st1, newlyReady |-> <<>>])
     ELSE [status |-> st1, newlyReady |-> <<>>]

\* [status, newlyReady] after markJobCompleted(dag, jobId, success), jobId in the dag.
markJobCompleted(dag, st, jobId, success) ==
  LET st1 == [st EXCEPT ![jobId] = IF success THEN "success" ELSE "failure"]
  IN IF success
     THEN readyLoop(dag, 1, [status |-> st1, newlyReady |-> <<>>])
     ELSE [status |-> skipDependentJobs(dag, st1, jobId), newlyReady |-> <<>>]

\* Cancels running nodes too.
cancelAllJobsRunningToo(st) ==
  [id \in Ids |-> IF st[id] \in {"pending", "ready", "running"} THEN "cancelled" ELSE st[id]]

cancelAllJobs(st) ==
  [id \in Ids |-> IF st[id] \in {"pending", "ready"} THEN "cancelled" ELSE st[id]]

isDagComplete(st) ==
  \A id \in Ids : st[id] \notin {"pending", "ready", "running"}

(***************************************************************************)
(* getTopologicalOrder                                                     *)
(***************************************************************************)
RECURSIVE visit(_, _, _)
RECURSIVE visitDeps(_, _, _, _)

\* visit that pushes the node before its dependencies.
visitPreOrder(dag, jobId, acc) ==
  IF jobId \in acc.visited THEN acc
  ELSE visitDeps(dag, dag[jobId], 1,
                 [order |-> Append(acc.order, jobId), visited |-> acc.visited \cup {jobId}])

\* acc = [order, visited]
visit(dag, jobId, acc) ==
  IF jobId \in acc.visited THEN acc
  ELSE LET r == visitDeps(dag, dag[jobId], 1,
                          [order |-> acc.order, visited |-> acc.visited \cup {jobId}])
       IN [order |-> Append(r.order, jobId), visited |-> r.visited]

visitDeps(dag, deps, i, acc) ==
  IF i > Len(deps) THEN acc
  ELSE visitDeps(dag, deps, i + 1, visit(dag, deps[i], acc))

RECURSIVE visitLoop(_, _, _)
visitLoop(dag, jobId, acc) ==
  IF jobId > MaxNodes THEN acc
  ELSE visitLoop(dag, jobId + 1, visit(dag, jobId, acc))

getTopologicalOrder(dag) == visitLoop(dag, 1, [order |-> <<>>, visited |-> {}]).order

(***************************************************************************)
(* DAG engine: state machine                                               *)
(***************************************************************************)
\* jobs: the DagNode[] given to buildDag; built: "no" before the call, then
\* "ok" or the error thrown; status: the status field of every node of the
\* Map; newlyReady: what the last markJobCompleted returned; order: what the
\* last getTopologicalOrder returned.

\* new VmManager(): no instance; no hypervisor process, no socket file.
VmManagerNew ==
  /\ instances = [id \in 1..MaxVms |-> [state |-> "none", process |-> 0]]
  /\ procs = [p \in 1..MaxProcs |-> "unspawned"]
  /\ socket = [id \in 1..MaxVms |-> FALSE]
  /\ vmOp = [op |-> "none", id |-> 0, err |-> FALSE, sent |-> <<>>, again |-> FALSE]

\* No dag built yet.
DagNone ==
  /\ jobs = [id \in Ids |-> <<>>]
  /\ built = "no"
  /\ status = [id \in Ids |-> "none"]
  /\ newlyReady = <<>>
  /\ order = <<>>

\* The server command has not been run.
ServerNone ==
  /\ options = [maxJobs |-> <<>>]
  /\ maxConcurrentJobs = 0
  /\ pipelines = [r \in 1..MaxRuns |-> [id \in Ids |-> <<>>]]
  /\ runStatus = [r \in 1..MaxRuns |-> "none"]
  /\ runJobs = [r \in 1..MaxRuns |-> [id \in Ids |-> "none"]]
  /\ inflight = 0

\* The agent has received no job.
NoExec ==
  [pc |-> "idle", id |-> 0, proc |-> "none", code |-> 0, selfExit |-> FALSE,
   killed |-> FALSE, timer |-> "none", open |-> {}, stdout |-> <<>>, stderr |-> <<>>]

AgentNone ==
  /\ job = [steps |-> <<>>, timeout |-> 0, onOutput |-> FALSE]
  /\ iter = 1
  /\ results = <<>>
  /\ failed = FALSE
  /\ jobResult = "none"
  /\ exec = NoExec
  /\ chunks = <<>>

\* initSchema on a new database file: empty tables; nobody has read any log.
StoreNew ==
  /\ jobRows = {}
  /\ logRows = {}
  /\ logSeq = 0
  /\ appended = <<>>
  /\ since = 0
  /\ received = <<>>

\* initSchema on a new database file: no pipeline run, no job; the clock of
\* unixepoch() reads its first second.
RecordsNew ==
  /\ runTable = <<>>
  /\ jobTable = <<>>
  /\ unixepoch = 1
  /\ reopened = FALSE

\* A host with no TAP device, no NAT or FORWARD rule of the program and
\* nothing allocated.
HostNew ==
  /\ links = <<>>
  /\ masquerade = 0
  /\ forwardOut = <<>>
  /\ forwardIn = <<>>
  /\ ipForward = FALSE
  /\ configs = <<>>
  /\ releases = <<>>

\* No webhook delivery has arrived and the pipeline has no trigger rule.
HookNone ==
  /\ payload = [eventType |-> "none", ref |-> <<>>, files |-> {},
                action |-> "", refType |-> ""]
  /\ triggers = <<>>
  /\ triggered = "none"

\* No delivery is on its way.
SigNone ==
  /\ secret = 0
  /\ body = <<>>
  /\ signed = <<>>
  /\ signature = <<>>
  /\ tampered = "none"
  /\ verified = "none"

\* The run command has not been started; the pipeline has its jobs, none
\* with a dependency or a condition.
CliNone ==
  /\ jobDefs = [name \in 1..MaxCliJobs |-> [dependsOn |-> <<>>, condition |-> "none"]]
  /\ runOptions = [config |-> TRUE, pipelines |-> <<>>, pipeline |-> "", job |-> -1]
  /\ sortedJobs = <<>>
  /\ runResults = [name \in 1..MaxCliJobs |-> "none"]
  /\ ranJobs = {}
  /\ runFailed = FALSE
  /\ runIter = 0
  /\ exitCode = -1
  /\ errorLogged = "none"

\* No VM configuration has been handed to create: the required parts only,
\* and no API call has been made. drives and network_interfaces are the
\* lengths of the lists, -1 for a list left out.
ConfigNone ==
  /\ vmConfig = [drives |-> 0, network_interfaces |-> -1, vsock |-> FALSE,
                 logger |-> FALSE, metrics |-> FALSE, mmds_config |-> FALSE,
                 balloon |-> FALSE]
  /\ apiCalls = <<>>

\* getParallelLayers has not been called.
ViewNone == layers = <<>>

\* new CacheManager on an empty cache directory: CACHE_SCHEMA on a new
\* database, no entry; Date.now() reads 1.
CacheNew ==
  /\ cacheEntries = <<>>
  /\ cacheClock = 1
  /\ cacheOp = [op |-> "none", key |-> <<>>, hit |-> FALSE, hitKey |-> <<>>,
                tried |-> <<>>, evicted |-> <<>>]

\* Before buildDag is called there is no dag.
InitDag == DagNone /\ VmManagerNew /\ ServerNone /\ AgentNone /\ StoreNew /\ RecordsNew /\ HostNew /\ HookNone /\ SigNone /\ CliNone /\ ConfigNone /\ CacheNew /\ ViewNone

\* The caller writes the DagNode[] before it calls buildDag: one more entry of
\* a dependsOn array, naming any node or an unknown job, no name twice.
DependsOn(id, dep) ==
  /\ built = "no"
  /\ dependsOnEntries(jobs, MaxNodes) < MaxEdges
  /\ dep \notin Range(jobs[id])
  /\ jobs' = [jobs EXCEPT ![id] = Append(@, dep)]
  /\ UNCHANGED <<built, status, newlyReady, order>>
  /\ UNCHANGED outsideDag

DefineJobs == \E id \in Ids, dep \in Names : DependsOn(id, dep)

\* buildDag(jobs): throws what validateDag throws, else returns the dag.
BuildDag ==
  /\ built = "no"
  /\ LET v == validateDag(jobs)
     IN IF v = "ok"
        THEN built' = "ok" /\ status' = buildDagStatus(jobs)
        ELSE built' = v /\ status' = status
  /\ UNCHANGED <<jobs, newlyReady, order>>
  /\ UNCHANGED outsideDag

\* markJobRunning without the check of the status.
MarkJobRunningUnchecked(jobId) ==
  /\ built = "ok"
  /\ IF jobId \in Ids
     THEN status' = [status EXCEPT ![jobId] = "running"]
     ELSE status' = status
  /\ newlyReady' = <<>>
  /\ UNCHANGED <<jobs, built, order>>
  /\ UNCHANGED outsideDag

\* markJobRunning(dag, jobId): throws (nothing changes) for an unknown id or a
\* node that is not ready.
MarkJobRunning(jobId) ==
  /\ built = "ok"
  /\ IF jobId \in Ids /\ status[jobId] = "ready"
     THEN status' = [status EXCEPT ![jobId] = "running"]
     ELSE status' = status
  /\ newlyReady' = <<>>
  /\ UNCHANGED <<jobs, built, order>>
  /\ UNCHANGED outsideDag

\* markJobCompleted(dag, jobId, success): throws (nothing changes) for an
\* unknown id only.
MarkJobCompleted(jobId, success) ==
  /\ built = "ok"
  /\ IF jobId \in Ids
     THEN LET r == markJobCompleted(jobs, status, jobId, success)
          IN status' = r.status /\ newlyReady' = r.newlyReady
     ELSE status' = status /\ newlyReady' = <<>>
  /\ UNCHANGED <<jobs, built, order>>
  /\ UNCHANGED outsideDag

CancelAllJobs ==
  /\ built = "ok"
  /\ status' = cancelAllJobs(status)
  /\ newlyReady' = <<>>
  /\ UNCHANGED <<jobs, built, order>>
  /\ UNCHANGED outsideDag

GetTopologicalOrder ==
  /\ built = "ok"
  /\ order' = getTopologicalOrder(jobs)
  /\ UNCHANGED <<jobs, built, status, newlyReady>>
  /\ UNCHANGED outsideDag

\* Any sequence of calls of the mutating API on a built dag.
CallMarkJobRunning == \E jobId \in Names : MarkJobRunning(jobId)
CallMarkJobCompleted == \E jobId \in Names, success \in BOOLEAN : MarkJobCompleted(jobId, success)

NextDag == DefineJobs \/ BuildDag \/ CallMarkJobRunning \/ CallMarkJobCompleted \/ CancelAllJobs
SpecDag == InitDag /\ [][NextDag]_vars

\* The jobs are written, then buildDag, then the read-only views.
NextBuild == DefineJobs \/ BuildDag \/ GetTopologicalOrder
SpecBuild == InitDag /\ [][NextBuild]_vars

\* The completion loop: while some node is ready, pick any ready node and
\* complete it with either outcome.
CompleteReady ==
  \E jobId \in Ids, success \in BOOLEAN :
    status[jobId] = "ready" /\ MarkJobCompleted(jobId, success)

NextLoop == DefineJobs \/ BuildDag \/ CompleteReady
SpecLoop == InitDag /\ [][NextLoop]_vars /\ WF_vars(NextLoop)

\* The executor: it starts ready nodes only and completes running nodes
\* only, with either outcome.
StartReady ==
  \E jobId \in Ids : status[jobId] = "ready" /\ MarkJobRunning(jobId)
CompleteRunning ==
  \E jobId \in Ids, success \in BOOLEAN :
    status[jobId] = "running" /\ MarkJobCompleted(jobId, success)

NextExecutor == DefineJobs \/ BuildDag \/ StartReady \/ CompleteRunning
SpecExecutor == InitDag /\ [][NextExecutor]_vars

(***************************************************************************)
(* getParallelLayers                                                       *)
(***************************************************************************)
\* layers: what the last getParallelLayers returned, <<"thrown">> when it
\* threw.
RECURSIVE layerLoop(_, _, _, _)
\* layerLoop that adds a job to assigned as soon as it is in the layer.
layerLoopAssigning(dag, jobId, assigned, layer) ==
  IF jobId > MaxNodes THEN layer
  ELSE IF jobId \notin assigned /\ \A i \in 1..Len(dag[jobId]) : dag[jobId][i] \in assigned
       THEN layerLoop(dag, jobId + 1, assigned \cup {jobId}, Append(layer, jobId))
       ELSE layerLoop(dag, jobId + 1, assigned, layer)

\* for (const [jobId, job] of dag): the layer of one pass of the while loop.
layerLoop(dag, jobId, assigned, layer) ==
  IF jobId > MaxNodes THEN layer
  ELSE IF jobId \notin assigned /\ \A i \in 1..Len(dag[jobId]) : dag[jobId][i] \in assigned
       THEN layerLoop(dag, jobId + 1, assigned, Append(layer, jobId))
       ELSE layerLoop(dag, jobId + 1, assigned, layer)

RECURSIVE whileLayers(_, _, _)
\* while (assigned.size < dag.size)
whileLayers(dag, assigned, acc) ==
  IF Cardinality(assigned) >= MaxNodes THEN acc
  ELSE LET layer == layerLoop(dag, 1, assigned, <<>>)
       IN IF layer = <<>> THEN <<"thrown">>
          ELSE whileLayers(dag, assigned \cup Range(layer), Append(acc, layer))

getParallelLayers(dag) == whileLayers(dag, {}, <<>>)

GetParallelLayers ==
  /\ built = "ok"
  /\ layers' = getParallelLayers(jobs)
  /\ UNCHANGED dagVars
  /\ UNCHANGED outsideView

NextLayers == DefineJobs \/ BuildDag \/ GetParallelLayers
SpecLayers == InitDag /\ [][NextLayers]_vars

(***************************************************************************)
(* VM manager                                                              *)
(***************************************************************************)
\* instances: the Map of the manager, id -> [state, process] ("none": no
\* entry); procs: every hypervisor process spawned so far ("alive",
\* "signalled": SIGKILL sent and exitCode still null, "exited": exitCode set);
\* socket: whether the file runtimeDir/<id>.sock exists; vmOp: the last call,
\* whether it threw, the requests and signals it sent, and whether the call
\* before it was the same call on the same id.
VmIds == 1..MaxVms
ProcIds == 1..MaxProcs

PollMs == 100
DestroyStopTimeoutMs == 5000
DefaultStopTimeoutMs == 10000
Never == 999999

\* Timeouts passed to stop, and the time the guest takes to power off after
\* ctrl-alt-del.
StopTimeouts == {0, DefaultStopTimeoutMs}
BetweenPolls == DefaultStopTimeoutMs - (PollMs \div 2)
ExitTimes == {0, BetweenPolls, Never}

VmCall(op, id, err, sent) ==
  [op |-> op, id |-> id, err |-> err, sent |-> sent,
   again |-> (vmOp.op = op /\ vmOp.id = id)]

\* process.exitCode === null
exitCodeNull(ps, p) == ps[p] \in {"alive", "signalled"}

\* process.kill(): the signal reaches a live process only.
kill(ps, p) == [ps EXCEPT ![p] = IF ps[p] = "alive" THEN "signalled" ELSE ps[p]]

\* Whether the poll loop of stop sees the process exited before timeoutMs
\* elapses: polls happen at 0, PollMs, 2*PollMs, ... while the elapsed time is
\* below timeoutMs; the first poll at or after the exit is poll firstPoll.
exitSeen(timeoutMs, exitedBefore, exitMs) ==
  LET firstPoll == IF exitedBefore THEN 0 ELSE (exitMs + PollMs - 1) \div PollMs
  IN firstPoll * PollMs < timeoutMs

\* stop that sends SIGKILL whether or not the poll loop saw the process exit.
stopRunningAlwaysKills(inst, ps, timeoutMs, reqOk, exitMs) ==
  [state |-> "stopped",
   procs |-> kill(ps, inst.process),
   sent |-> <<"SendCtrlAltDel", "SIGKILL">>]

\* Outcome of stop(id, timeoutMs) on a running instance:
\* [state, procs, sent].  reqOk: the SendCtrlAltDel request succeeded;
\* exitMs: when the process exits after it.  A failed request goes to the
\* catch and from there to the kill; so does a poll loop that ends without
\* having seen the exit, and then the signal finds the process alive only if
\* it has not exited meanwhile.
stopRunning(inst, ps, timeoutMs, reqOk, exitMs) ==
  LET p == inst.process
      gone == ~exitCodeNull(ps, p)
  IN IF reqOk /\ exitSeen(timeoutMs, gone, exitMs)
     THEN [state |-> "stopped",
           procs |-> [ps EXCEPT ![p] = "exited"],
           sent |-> <<"SendCtrlAltDel">>]
     ELSE [state |-> "stopped",
           procs |-> IF reqOk /\ exitMs < timeoutMs
                     THEN [ps EXCEPT ![p] = "exited"]
                     ELSE kill(ps, p),
           sent |-> <<"SendCtrlAltDel", "SIGKILL">>]

\* What create(options) does to the manager, the processes and the socket
\* file: outcome is what the environment does to the call.
createOutcome(id, outcome) ==
  /\ \E p \in ProcIds :
       /\ procs[p] = "unspawned"
       /\ \A q \in ProcIds : q < p => procs[q] # "unspawned"
       /\ CASE outcome = "socket timeout" ->
                 /\ procs' = [procs EXCEPT ![p] = "signalled"]
                 /\ socket' = [socket EXCEPT ![id] = FALSE]
                 /\ instances' = instances
                 /\ vmOp' = VmCall("create", id, TRUE, <<>>)
            [] outcome = "api timeout" ->
                 /\ procs' = [procs EXCEPT ![p] = "signalled"]
                 /\ socket' = [socket EXCEPT ![id] = TRUE]
                 /\ instances' = instances
                 /\ vmOp' = VmCall("create", id, TRUE, <<>>)
            [] outcome = "configure error" ->
                 /\ procs' = [procs EXCEPT ![p] = "alive"]
                 /\ socket' = [socket EXCEPT ![id] = TRUE]
                 /\ instances' = [instances EXCEPT ![id] = [state |-> "configuring", process |-> p]]
                 /\ vmOp' = VmCall("create", id, TRUE, <<>>)
            [] outcome = "ok" ->
                 /\ procs' = [procs EXCEPT ![p] = "alive"]
                 /\ socket' = [socket EXCEPT ![id] = TRUE]
                 /\ instances' = [instances EXCEPT ![id] = [state |-> "configuring", process |-> p]]
                 /\ vmOp' = VmCall("create", id, FALSE, <<>>)

\* create(options)
Create(id, outcome) ==
  /\ createOutcome(id, outcome)
  /\ UNCHANGED outsideVm

\* start without the check of the instance state.
StartWithoutStateCheck(id, reqOk) ==
  /\ IF instances[id].state = "none"
     THEN /\ instances' = instances
          /\ vmOp' = VmCall("start", id, TRUE, <<>>)
     ELSE IF reqOk
          THEN /\ instances' = [instances EXCEPT ![id].state = "running"]
               /\ vmOp' = VmCall("start", id, FALSE, <<"InstanceStart">>)
          ELSE /\ instances' = instances
               /\ vmOp' = VmCall("start", id, TRUE, <<"InstanceStart">>)
  /\ UNCHANGED <<procs, socket>>
  /\ UNCHANGED outsideVm

\* start(id); reqOk: the InstanceStart request succeeded.
Start(id, reqOk) ==
  /\ IF instances[id].state = "none" \/ instances[id].state # "configuring"
     THEN /\ instances' = instances
          /\ vmOp' = VmCall("start", id, TRUE, <<>>)
     ELSE IF reqOk
          THEN /\ instances' = [instances EXCEPT ![id].state = "running"]
               /\ vmOp' = VmCall("start", id, FALSE, <<"InstanceStart">>)
          ELSE /\ instances' = instances
               /\ vmOp' = VmCall("start", id, TRUE, <<"InstanceStart">>)
  /\ UNCHANGED <<procs, socket>>
  /\ UNCHANGED outsideVm

\* stop without the check of the instance state.
StopWithoutStateCheck(id, timeoutMs, reqOk, exitMs) ==
  /\ IF instances[id].state = "none"
     THEN /\ UNCHANGED <<instances, procs>>
          /\ vmOp' = VmCall("stop", id, TRUE, <<>>)
     ELSE LET r == stopRunning(instances[id], procs, timeoutMs, reqOk, exitMs)
          IN /\ instances' = [instances EXCEPT ![id].state = r.state]
             /\ procs' = r.procs
             /\ vmOp' = VmCall("stop", id, FALSE, r.sent)
  /\ UNCHANGED socket
  /\ UNCHANGED outsideVm

\* stop(id, timeoutMs)
Stop(id, timeoutMs, reqOk, exitMs) ==
  /\ IF instances[id].state = "none"
     THEN /\ UNCHANGED <<instances, procs>>
          /\ vmOp' = VmCall("stop", id, TRUE, <<>>)
     ELSE IF instances[id].state # "running"
          THEN /\ UNCHANGED <<instances, procs>>
               /\ vmOp' = VmCall("stop", id, FALSE, <<>>)
          ELSE LET r == stopRunning(instances[id], procs, timeoutMs, reqOk, exitMs)
               IN /\ instances' = [instances EXCEPT ![id].state = r.state]
                  /\ procs' = r.procs
                  /\ vmOp' = VmCall("stop", id, FALSE, r.sent)
  /\ UNCHANGED socket
  /\ UNCHANGED outsideVm

\* destroy that throws for a missing instance, as start and stop do.
destroyThrowsIfMissing(id, reqOk, exitMs) ==
  LET p == instances[id].process
      r == IF instances[id].state = "running"
           THEN stopRunning(instances[id], procs, DestroyStopTimeoutMs, reqOk, exitMs)
           ELSE [state |-> instances[id].state, procs |-> procs, sent |-> <<>>]
  IN IF instances[id].state = "none"
     THEN [instances |-> instances, procs |-> procs, socket |-> socket,
           err |-> TRUE, sent |-> <<>>]
     ELSE [instances |-> [instances EXCEPT ![id] = [state |-> "none", process |-> 0]],
           procs |-> kill(r.procs, p),
           socket |-> [socket EXCEPT ![id] = FALSE],
           err |-> FALSE,
           sent |-> r.sent]

\* destroy(id): [instances, procs, socket, err, sent] after the call.
destroy(id, reqOk, exitMs) ==
  IF instances[id].state = "none"
  THEN [instances |-> instances, procs |-> procs, socket |-> socket,
        err |-> FALSE, sent |-> <<>>]
  ELSE LET p == instances[id].process
           r == IF instances[id].state = "running"
                THEN stopRunning(instances[id], procs, DestroyStopTimeoutMs, reqOk, exitMs)
                ELSE [state |-> instances[id].state, procs |-> procs, sent |-> <<>>]
           stillAlive == exitCodeNull(r.procs, p)
       IN [instances |-> [instances EXCEPT ![id] = [state |-> "none", process |-> 0]],
           procs |-> IF stillAlive THEN kill(r.procs, p) ELSE r.procs,
           socket |-> [socket EXCEPT ![id] = FALSE],
           err |-> FALSE,
           sent |-> IF stillAlive THEN Append(r.sent, "SIGKILL") ELSE r.sent]

Destroy(id, reqOk, exitMs) ==
  /\ LET r == destroy(id, reqOk, exitMs)
     IN /\ instances' = r.instances
        /\ procs' = r.procs
        /\ socket' = r.socket
        /\ vmOp' = VmCall("destroy", id, r.err, r.sent)
  /\ UNCHANGED outsideVm

\* The environment: a hypervisor process exits by itself, or a killed one is
\* reaped.
ProcessExit(p) ==
  /\ procs[p] \in {"alive", "signalled"}
  /\ procs' = [procs EXCEPT ![p] = "exited"]
  /\ UNCHANGED <<instances, socket, vmOp>>
  /\ UNCHANGED outsideVm

\* A request can succeed only through an existing socket file with a live
\* hypervisor behind it.
ReqOutcomes(id) ==
  IF socket[id] /\ \E p \in ProcIds : procs[p] = "alive" THEN BOOLEAN ELSE {FALSE}

CallCreate == \E id \in VmIds, outcome \in {"socket timeout", "api timeout", "configure error", "ok"} : Create(id, outcome)
CallStart == \E id \in VmIds : \E reqOk \in ReqOutcomes(id) : Start(id, reqOk)
CallStop == \E id \in VmIds, timeoutMs \in StopTimeouts, exitMs \in ExitTimes : \E reqOk \in ReqOutcomes(id) : Stop(id, timeoutMs, reqOk, exitMs)
CallDestroy == \E id \in VmIds, exitMs \in ExitTimes : \E reqOk \in ReqOutcomes(id) : Destroy(id, reqOk, exitMs)
EnvProcessExit == \E p \in ProcIds : ProcessExit(p)

InitVm == DagNone /\ VmManagerNew /\ ServerNone /\ AgentNone /\ StoreNew /\ RecordsNew /\ HostNew /\ HookNone /\ SigNone /\ CliNone /\ ConfigNone /\ CacheNew /\ ViewNone

NextVm == CallCreate \/ CallStart \/ CallStop \/ CallDestroy \/ EnvProcessExit
SpecVm == InitVm /\ [][NextVm]_vars

\* destroyAll(): destroy(id) for every id of the map. The calls run side by
\* side, each on its own instance, process and socket file.
DestroyAll(reqOk, exitMs) ==
  /\ LET ids == {id \in VmIds : instances[id].state # "none"}
         owners(p) == {id \in ids : instances[id].process = p}
         after(id) == destroy(id, reqOk /\ TRUE \in ReqOutcomes(id), exitMs)
     IN /\ instances' = [id \in VmIds |->
                           IF id \in ids THEN after(id).instances[id] ELSE instances[id]]
        /\ procs' = [p \in ProcIds |->
                       IF owners(p) # {}
                       THEN after(CHOOSE id \in owners(p) : TRUE).procs[p]
                       ELSE procs[p]]
        /\ socket' = [id \in VmIds |-> IF id \in ids THEN FALSE ELSE socket[id]]
        /\ vmOp' = VmCall("destroyAll", 0, FALSE, <<>>)
  /\ UNCHANGED outsideVm

CallDestroyAll == \E reqOk \in BOOLEAN, exitMs \in ExitTimes : DestroyAll(reqOk, exitMs)
NextReclaim ==
  CallCreate \/ CallStart \/ CallStop \/ CallDestroy \/ CallDestroyAll \/ EnvProcessExit
SpecReclaim == InitVm /\ [][NextReclaim]_vars

(***************************************************************************)
(* VM manager: configure                                                   *)
(***************************************************************************)
\* vmConfig: the VmConfig handed to create; apiCalls: the requests the
\* last create sent to the client, <<method, position in its list>>.
repeated(method, n) == [i \in 1..n |-> <<method, i>>]
optional(method, present) == IF present THEN <<<<method, 1>>>> ELSE <<>>

\* configure that sets the vsock before the drives.
configureCallsVsockFirst(config) ==
  <<<<"setBootSource", 1>>, <<"setMachineConfig", 1>>>>
    \o optional("setVsock", config.vsock)
    \o repeated("setDrive", config.drives)
    \o (IF config.network_interfaces = -1 THEN <<>>
        ELSE repeated("setNetworkInterface", config.network_interfaces))
    \o optional("setLogger", config.logger)
    \o optional("setMetrics", config.metrics)
    \o optional("setMmdsConfig", config.mmds_config)
    \o optional("setBalloon", config.balloon)

\* The requests of configure(instance, config) when none of them fails.
configureCalls(config) ==
  <<<<"setBootSource", 1>>, <<"setMachineConfig", 1>>>>
    \o repeated("setDrive", config.drives)
    \o (IF config.network_interfaces = -1 THEN <<>>
        ELSE repeated("setNetworkInterface", config.network_interfaces))
    \o optional("setVsock", config.vsock)
    \o optional("setLogger", config.logger)
    \o optional("setMetrics", config.metrics)
    \o optional("setMmdsConfig", config.mmds_config)
    \o optional("setBalloon", config.balloon)

\* configure(instance, config): each request is awaited, so the one that
\* throws (request failAt, 0 for none) is the last one sent.
configure(config, failAt) ==
  IF failAt = 0
  THEN [calls |-> configureCalls(config), err |-> FALSE]
  ELSE [calls |-> SubSeq(configureCalls(config), 1, failAt), err |-> TRUE]

\* The caller puts together the VmConfig of its create call.
ConfigAdd(field) ==
  /\ vmOp.op = "none"
  /\ CASE field = "drives" ->
            /\ vmConfig.drives < MaxDrives
            /\ vmConfig' = [vmConfig EXCEPT !.drives = @ + 1]
       [] field = "network_interfaces" ->
            /\ vmConfig.network_interfaces < MaxNics
            /\ vmConfig' = [vmConfig EXCEPT !.network_interfaces = @ + 1]
       [] OTHER ->
            /\ ~vmConfig[field]
            /\ vmConfig' = [vmConfig EXCEPT ![field] = TRUE]
  /\ UNCHANGED apiCalls
  /\ UNCHANGED vmVars
  /\ UNCHANGED outsideConfig

\* create(options) once the API answers, with the requests of configure.
CreateConfigured(id, failAt) ==
  /\ LET r == configure(vmConfig, failAt)
     IN /\ createOutcome(id, IF r.err THEN "configure error" ELSE "ok")
        /\ apiCalls' = r.calls
  /\ UNCHANGED vmConfig
  /\ UNCHANGED outsideConfig

ConfigFields ==
  {"drives", "network_interfaces", "vsock", "logger", "metrics", "mmds_config", "balloon"}
ConfigDefine == \E field \in ConfigFields : ConfigAdd(field)
CallCreateConfigured ==
  \E id \in VmIds : \E failAt \in 0..Len(configureCalls(vmConfig)) : CreateConfigured(id, failAt)

InitConfig ==
  /\ DagNone /\ VmManagerNew /\ ServerNone /\ AgentNone
  /\ StoreNew /\ RecordsNew /\ HostNew /\ HookNone /\ SigNone /\ CliNone /\ ConfigNone /\ CacheNew /\ ViewNone
NextConfig == ConfigDefine \/ CallCreateConfigured
SpecConfig == InitConfig /\ [][NextConfig]_vars

(***************************************************************************)
(* Scheduler                                                               *)
(***************************************************************************)
\* options: the ServerCommandOptions (maxJobs: <<>> when absent, else <<n>>);
\* maxConcurrentJobs: the cap the server was constructed with; pipelines: the
\* job graph of every run; runStatus: status of the run; runJobs: status of
\* the nodes of the run's dag; inflight: jobs handed to an executor and not
\* yet completed.
RunIds == 1..MaxRuns

DefaultMaxConcurrentJobs == 4

\* server that ignores options.maxJobs.
serverIgnoresMaxJobs(opts) == [maxConcurrentJobs |-> DefaultMaxConcurrentJobs]

\* server(options): the ZephyrServer configuration, maxJobs ?? 4.
server(opts) ==
  [maxConcurrentJobs |-> IF opts.maxJobs = <<>> THEN DefaultMaxConcurrentJobs
                         ELSE opts.maxJobs[1]]

\* Pipelines the project may define: independent jobs, a chain, a fan-out;
\* every run executes the project's pipeline.
Independent == [id \in Ids |-> <<>>]
Chain == [id \in Ids |-> IF id = 1 THEN <<>> ELSE <<id - 1>>]
FanOut == [id \in Ids |-> IF id = 1 THEN <<>> ELSE <<1>>]
Pipelines == {Independent, Chain, FanOut}

InitSched ==
  /\ DagNone /\ VmManagerNew /\ AgentNone /\ StoreNew /\ RecordsNew /\ HostNew /\ HookNone /\ SigNone /\ CliNone /\ ConfigNone /\ CacheNew /\ ViewNone
  /\ options \in [maxJobs : {<<>>, <<1>>, <<2>>}]
  /\ maxConcurrentJobs = server(options).maxConcurrentJobs
  /\ \E p \in Pipelines : pipelines = [r \in RunIds |-> p]
  /\ runStatus = [r \in RunIds |-> "pending"]
  /\ runJobs = [r \in RunIds |-> [id \in Ids |-> "none"]]
  /\ inflight = 0

\* Run initialization: the oldest pending run gets its dag built and becomes
\* running.
PickUpRun(r) ==
  /\ runStatus[r] = "pending"
  /\ \A q \in RunIds : q < r => runStatus[q] # "pending"
  /\ validateDag(pipelines[r]) = "ok"
  /\ runStatus' = [runStatus EXCEPT ![r] = "running"]
  /\ runJobs' = [runJobs EXCEPT ![r] = buildDagStatus(pipelines[r])]
  /\ UNCHANGED <<options, maxConcurrentJobs, pipelines, inflight>>
  /\ UNCHANGED outsideSched

hasReady(r) == runStatus[r] = "running" /\ \E n \in Ids : runJobs[r][n] = "ready"

\* Admission: a dispatch is admitted only while inflight < maxConcurrent.
admits(n, cap) == n < cap

\* Dispatch loop: while a slot is free, the first ready node of the oldest run
\* that has one is marked running and handed to an executor.
Dispatch(r, n) ==
  /\ admits(inflight, maxConcurrentJobs)
  /\ hasReady(r) /\ \A q \in RunIds : q < r => ~hasReady(q)
  /\ runJobs[r][n] = "ready" /\ \A m \in Ids : m < n => runJobs[r][m] # "ready"
  /\ runJobs' = [runJobs EXCEPT ![r][n] = "running"]
  /\ inflight' = inflight + 1
  /\ UNCHANGED <<options, maxConcurrentJobs, pipelines, runStatus>>
  /\ UNCHANGED outsideSched

\* Completion handling: the result of an executor is applied to the dag; a
\* complete dag ends the run.
Complete(r, n, success) ==
  /\ runStatus[r] = "running" /\ runJobs[r][n] = "running"
  /\ LET st == markJobCompleted(pipelines[r], runJobs[r], n, success).status
     IN /\ runJobs' = [runJobs EXCEPT ![r] = st]
        /\ runStatus' = [runStatus EXCEPT ![r] =
                           IF ~isDagComplete(st) THEN "running"
                           ELSE IF \E m \in Ids : st[m] = "failure" THEN "failure"
                           ELSE "success"]
  /\ inflight' = inflight - 1
  /\ UNCHANGED <<options, maxConcurrentJobs, pipelines>>
  /\ UNCHANGED outsideSched

SchedPickUp == \E r \in RunIds : PickUpRun(r)
SchedDispatch == \E r \in RunIds, n \in Ids : Dispatch(r, n)
SchedComplete == \E r \in RunIds, n \in Ids, success \in BOOLEAN : Complete(r, n, success)

NextSched == SchedPickUp \/ SchedDispatch \/ SchedComplete
SpecSched == InitSched /\ [][NextSched]_vars

(***************************************************************************)
(* Guest agent: executeJob and executeCommand                              *)
(***************************************************************************)
\* job: the Job posted to the agent (timeout 0: none given; onOutput: whether
\* an output callback is passed); iter: the position of the for-of loop;
\* results, failed: the locals of executeJob; jobResult: the status of the
\* JobResult returned; exec: the executeCommand call in flight; chunks: the
\* calls of onOutput so far.
Streams == {"stdout", "stderr"}
TimeoutExitCode == 124
OwnExitCodes == {0, 1}
SignalExitCode == 143

JobStep == [continueOnError : BOOLEAN]
Job == [steps : UNION {[1..n -> JobStep] : n \in 1..MaxSteps},
        timeout : {0, 1},
        onOutput : BOOLEAN]

RECURSIVE outputOf(_, _)
\* The number of reads that returned data in the first n results.
outputOf(res, n) ==
  IF n = 0 THEN 0
  ELSE Len(res[n].stdout) + Len(res[n].stderr) + outputOf(res, n - 1)

\* The number of reads that have returned data so far in the job.
produced == outputOf(results, Len(results)) + Len(exec.stdout) + Len(exec.stderr)

\* A JobResult that always reports success.
jobStatusAlwaysSuccess(f, next) ==
  IF next <= Len(job.steps) THEN "none" ELSE "success"

\* The status of the JobResult, once the loop is over.
jobStatus(f, next) ==
  IF next <= Len(job.steps) THEN "none"
  ELSE IF f THEN "failure" ELSE "success"

InitAgent ==
  /\ DagNone /\ VmManagerNew /\ ServerNone /\ StoreNew /\ RecordsNew /\ HostNew /\ HookNone /\ SigNone /\ CliNone /\ ConfigNone /\ CacheNew /\ ViewNone
  /\ job \in Job
  /\ iter = 1
  /\ results = <<>>
  /\ failed = FALSE
  /\ jobResult = "none"
  /\ exec = NoExec
  /\ chunks = <<>>

\* The skip test that looks at the failed flag only.
skipsIgnoringContinueOnError(step) == failed

\* if (failed && !step.continueOnError)
skips(step) == failed /\ ~step.continueOnError

\* A failure that counts whether or not the step is continueOnError.
failsWhateverContinueOnError(step, success) == ~success

\* if (!success && !step.continueOnError) failed = true
fails(step, success) == ~success /\ ~step.continueOnError

\* The loop head without the await of the command in flight.
ExecuteJobStepNoAwait ==
  /\ jobResult = "none" /\ iter <= Len(job.steps)
  /\ iter' = iter + 1
  /\ IF skips(job.steps[iter])
     THEN /\ results' = Append(results,
                               [id |-> iter, status |-> "skipped", exitCode |-> 0,
                                stdout |-> <<>>, stderr |-> <<>>])
          /\ jobResult' = jobStatus(failed, iter + 1)
          /\ exec' = exec
     ELSE /\ exec' = [pc |-> "reading", id |-> iter, proc |-> "running", code |-> 0,
                      selfExit |-> FALSE, killed |-> FALSE,
                      timer |-> IF job.timeout # 0 THEN "armed" ELSE "none",
                      open |-> Streams, stdout |-> <<>>, stderr |-> <<>>]
          /\ UNCHANGED <<results, jobResult>>
  /\ UNCHANGED <<job, failed, chunks>>
  /\ UNCHANGED outsideAgent

\* One iteration of the loop of executeJob up to its await: the step is
\* skipped, or executeCommand spawns the command, arms the timer when a
\* timeout is given and starts reading both streams.
ExecuteJobStep ==
  /\ exec.pc = "idle" /\ jobResult = "none" /\ iter <= Len(job.steps)
  /\ iter' = iter + 1
  /\ IF skips(job.steps[iter])
     THEN /\ results' = Append(results,
                               [id |-> iter, status |-> "skipped", exitCode |-> 0,
                                stdout |-> <<>>, stderr |-> <<>>])
          /\ jobResult' = jobStatus(failed, iter + 1)
          /\ exec' = exec
     ELSE /\ exec' = [pc |-> "reading", id |-> iter, proc |-> "running", code |-> 0,
                      selfExit |-> FALSE, killed |-> FALSE,
                      timer |-> IF job.timeout # 0 THEN "armed" ELSE "none",
                      open |-> Streams, stdout |-> <<>>, stderr |-> <<>>]
          /\ UNCHANGED <<results, jobResult>>
  /\ UNCHANGED <<job, failed, chunks>>
  /\ UNCHANGED outsideAgent

\* readStream that appends every text to stdout, whatever the target.
ReadStreamIntoStdout(target) ==
  /\ exec.pc = "reading" /\ target \in exec.open
  /\ produced < MaxChunks
  /\ LET text == produced + 1
     IN /\ exec' = [exec EXCEPT !.stdout = Append(@, text)]
        /\ chunks' = IF job.onOutput
                     THEN Append(chunks, [id |-> exec.id, stream |-> target, data |-> text])
                     ELSE chunks
  /\ UNCHANGED <<job, iter, results, failed, jobResult>>
  /\ UNCHANGED outsideAgent

\* readStream(stream, target): a read returns data; the text is appended to
\* the captured output and handed to onOutput when there is one.
ReadStream(target) ==
  /\ exec.pc = "reading" /\ target \in exec.open
  /\ produced < MaxChunks
  /\ LET text == produced + 1
     IN /\ exec' = [exec EXCEPT ![target] = Append(@, text)]
        /\ chunks' = IF job.onOutput
                     THEN Append(chunks, [id |-> exec.id, stream |-> target, data |-> text])
                     ELSE chunks
  /\ UNCHANGED <<job, iter, results, failed, jobResult>>
  /\ UNCHANGED outsideAgent

\* readStream(stream, target): a read returns done; when both readers are
\* done Promise.all resolves and executeCommand awaits proc.exited.
StreamDone(target) ==
  /\ exec.pc = "reading" /\ target \in exec.open
  /\ exec' = [exec EXCEPT !.open = @ \ {target},
                          !.pc = IF exec.open = {target} THEN "awaitExit" ELSE "reading"]
  /\ UNCHANGED <<job, iter, results, failed, jobResult, chunks>>
  /\ UNCHANGED outsideAgent

\* The callback of setTimeout: killed = true; proc.kill(), which reaches the
\* command only if it is still running.
TimeoutFires ==
  /\ exec.timer = "armed"
  /\ exec' = [exec EXCEPT !.timer = "fired", !.killed = TRUE,
                          !.proc = IF @ = "running" THEN "signalled" ELSE @]
  /\ UNCHANGED <<job, iter, results, failed, jobResult, chunks>>
  /\ UNCHANGED outsideAgent

\* The command exits: by itself with its own code, or from the signal.
ProcExited(code) ==
  /\ exec.proc \in {"running", "signalled"}
  /\ code \in (IF exec.proc = "running" THEN OwnExitCodes ELSE {SignalExitCode})
  /\ exec' = [exec EXCEPT !.proc = "exited", !.code = code,
                          !.selfExit = (exec.proc = "running")]
  /\ UNCHANGED <<job, iter, results, failed, jobResult, chunks>>
  /\ UNCHANGED outsideAgent

\* exitCode: killed ? 124 : exitCode
responseExitCode == IF exec.killed THEN TimeoutExitCode ELSE exec.code

\* executeCommand returns (the timer is cleared) and executeJob records the
\* step result, updates failed and, after the last step, returns the
\* JobResult.
ExecuteCommandReturns ==
  /\ exec.pc = "awaitExit" /\ exec.proc = "exited"
  /\ LET success == responseExitCode = 0
         f == failed \/ fails(job.steps[exec.id], success)
     IN /\ results' = Append(results,
                             [id |-> exec.id,
                              status |-> IF success THEN "success" ELSE "failure",
                              exitCode |-> responseExitCode,
                              stdout |-> exec.stdout, stderr |-> exec.stderr])
        /\ failed' = f
        /\ jobResult' = jobStatus(f, iter)
  /\ exec' = NoExec
  /\ UNCHANGED <<job, iter, chunks>>
  /\ UNCHANGED outsideAgent

AgentReadStream == \E target \in Streams : ReadStream(target)
AgentStreamDone == \E target \in Streams : StreamDone(target)
AgentProcExited == \E code \in OwnExitCodes \cup {SignalExitCode} : ProcExited(code)

NextAgent ==
  \/ ExecuteJobStep \/ AgentReadStream \/ AgentStreamDone
  \/ TimeoutFires \/ AgentProcExited \/ ExecuteCommandReturns
SpecAgent == InitAgent /\ [][NextAgent]_vars

(***************************************************************************)
(* Log store: appendLog and getLogsForJob                                  *)
(***************************************************************************)
\* jobRows: the ids in the jobs table; logRows: the rows of the logs table;
\* logSeq: the AUTOINCREMENT counter of the logs table; appended: the
\* appendLog calls that returned, in order; since, received: the cursor of a
\* reader that tails the logs of ReaderJob and the rows it has got.
LogJobs == 1..MaxLogJobs
ReaderJob == 1
Contents == {"a", "b"}

\* ORDER BY id, descending.
RECURSIVE orderByIdDesc(_)
orderByIdDesc(rows) ==
  IF rows = {} THEN <<>>
  ELSE LET last == CHOOSE r \in rows : \A o \in rows : o.id <= r.id
       IN <<last>> \o orderByIdDesc(rows \ {last})

\* ORDER BY id
RECURSIVE orderById(_)
orderById(rows) ==
  IF rows = {} THEN <<>>
  ELSE LET first == CHOOSE r \in rows : \A o \in rows : r.id <= o.id
       IN <<first>> \o orderById(rows \ {first})

\* The cursor test with >= for >.
afterSinceInclusive(row, cursor) == cursor = 0 \/ row.id >= cursor

\* if (options?.since) sql += " AND id > $since": no cursor, or 0, selects
\* every row.
afterSince(row, cursor) == cursor = 0 \/ row.id > cursor

\* getLogsForJob(jobId, {since: cursor})
getLogsForJob(jobId, cursor) ==
  orderById({r \in logRows : r.job_id = jobId /\ afterSince(r, cursor)})

\* createJob(job): a row of the jobs table.
CreateJob(jobId) ==
  /\ jobId \notin jobRows
  /\ jobRows' = jobRows \cup {jobId}
  /\ UNCHANGED <<logRows, logSeq, appended, since, received>>
  /\ UNCHANGED outsideStore

\* appendLog(log): INSERT with the next AUTOINCREMENT id; the foreign key
\* makes it throw, and insert nothing, when the job has no row.
AppendLog(jobId, stream, content) ==
  /\ logSeq < MaxLogs
  /\ jobId \in jobRows
  /\ logSeq' = logSeq + 1
  /\ logRows' = logRows \cup {[id |-> logSeq + 1, job_id |-> jobId,
                               stream |-> stream, content |-> content]}
  /\ appended' = Append(appended, [job_id |-> jobId, stream |-> stream, content |-> content])
  /\ UNCHANGED <<jobRows, since, received>>
  /\ UNCHANGED outsideStore

\* The largest id among rows, 0 when there is none.
largestId(rows) ==
  IF rows = <<>> THEN 0
  ELSE CHOOSE n \in {rows[i].id : i \in 1..Len(rows)} :
         \A i \in 1..Len(rows) : rows[i].id <= n

\* The reader calls getLogsForJob(ReaderJob, {since}) with the largest id it
\* has received, without a cursor the first time.
TailLogs ==
  /\ received' = received \o getLogsForJob(ReaderJob, since)
  /\ since' = largestId(received')
  /\ UNCHANGED <<jobRows, logRows, logSeq, appended>>
  /\ UNCHANGED outsideStore

StoreCreateJob == \E jobId \in LogJobs : CreateJob(jobId)
StoreAppendLog ==
  \E jobId \in LogJobs, stream \in {"stdout", "stderr"}, content \in Contents :
    AppendLog(jobId, stream, content)

InitStore == DagNone /\ VmManagerNew /\ ServerNone /\ AgentNone /\ StoreNew /\ RecordsNew /\ HostNew /\ HookNone /\ SigNone /\ CliNone /\ ConfigNone /\ CacheNew /\ ViewNone
NextStore == StoreCreateJob \/ StoreAppendLog \/ TailLogs
SpecStore == InitStore /\ [][NextStore]_vars

(***************************************************************************)
(* Record store: pipeline runs and the job queue                           *)
(***************************************************************************)
\* runTable: the rows of pipeline_runs by id; jobTable: the rows of jobs in
\* rowid order, which is the order of their INSERTs as no row is ever
\* deleted; unixepoch: the second the DEFAULT (unixepoch()) of created_at
\* reads; reopened: the database file was opened again by a new process.
RunRowIds == 1..MaxRunRows
JobRowIds == 1..MaxJobRows
Null == -99
RecordStatus ==
  {"pending", "queued", "running", "success", "failure", "cancelled", "skipped"}

\* createPipelineRun(run): INSERT ... RETURNING *; the primary key makes it
\* throw when the id has a row. The project of the run has its row.
createPipelineRun(runs, id, now) ==
  [r \in DOMAIN runs \cup {id} |->
     IF r = id
     THEN [status |-> "pending", started_at |-> Null, finished_at |-> Null,
           created_at |-> now]
     ELSE runs[r]]

\* updatePipelineRunStatus(id, status, timestamps): UPDATE ... WHERE id = $id.
\* A timestamp of 0 stands for one that is left out (or is 0: the test is
\* on the truth value).
updatePipelineRunStatus(runs, id, newStatus, timestamps) ==
  IF id \notin DOMAIN runs THEN runs
  ELSE [runs EXCEPT ![id] =
          [@ EXCEPT !.status = newStatus,
                    !.started_at = IF timestamps.startedAt # 0
                                   THEN timestamps.startedAt ELSE @,
                    !.finished_at = IF timestamps.finishedAt # 0
                                    THEN timestamps.finishedAt ELSE @]]

jobIds(table) == {table[i].id : i \in 1..Len(table)}

\* createJob(job): INSERT ... RETURNING *.
createJob(table, id, pipelineRunId, now) ==
  Append(table, [id |-> id, pipeline_run_id |-> pipelineRunId,
                 status |-> "pending", started_at |-> Null,
                 finished_at |-> Null, exit_code |-> Null, created_at |-> now])

\* updateJobStatus(id, status, options): exitCode Null stands for undefined.
updateJobStatus(table, id, newStatus, opts) ==
  [i \in 1..Len(table) |->
     IF table[i].id # id THEN table[i]
     ELSE [table[i] EXCEPT
             !.status = newStatus,
             !.started_at = IF opts.startedAt # 0 THEN opts.startedAt ELSE @,
             !.finished_at = IF opts.finishedAt # 0 THEN opts.finishedAt ELSE @,
             !.exit_code = IF opts.exitCode # Null THEN opts.exitCode ELSE @]]

\* The orders in which SELECT ... ORDER BY created_at may return the rows
\* whose rowids are in sel: SQL leaves the order of rows with equal
\* created_at open.
orderByCreatedAt(table, sel) ==
  {s \in [1..Cardinality(sel) -> sel] :
     /\ \A i, j \in DOMAIN s : i # j => s[i] # s[j]
     /\ \A i, j \in DOMAIN s :
          i < j => table[s[i]].created_at <= table[s[j]].created_at}

withStatus(table, statuses) ==
  {i \in 1..Len(table) : table[i].status \in statuses}

\* getNextPendingJob(): the rowids it may return, 0 for null.
getNextPendingJob(table) ==
  IF withStatus(table, {"pending"}) = {} THEN {0}
  ELSE {s[1] : s \in orderByCreatedAt(table, withStatus(table, {"pending"}))}

\* getPendingJobs(limit): the lists of rowids it may return; limit 0 stands
\* for no limit (if (limit)).
getPendingJobs(table, limit) ==
  {IF limit # 0 /\ limit < Len(s) THEN SubSeq(s, 1, limit) ELSE s :
     s \in orderByCreatedAt(table, withStatus(table, {"pending", "queued"}))}

\* new ZephyrDatabase(options) on the file a former process left:
\* initializeSchema creates what does not exist and changes no row.
ZephyrDatabase(runs, table) == [runs |-> runs, jobs |-> table]

CreatePipelineRun(id) ==
  /\ id \notin DOMAIN runTable
  /\ runTable' = createPipelineRun(runTable, id, unixepoch)
  /\ UNCHANGED <<jobTable, unixepoch, reopened>>
  /\ UNCHANGED outsideRecords

UpdatePipelineRunStatus(id, newStatus, timestamps) ==
  /\ runTable' = updatePipelineRunStatus(runTable, id, newStatus, timestamps)
  /\ UNCHANGED <<jobTable, unixepoch, reopened>>
  /\ UNCHANGED outsideRecords

\* The foreign key makes the INSERT throw when the run has no row, the
\* primary key when the job has one.
InsertJob(id, pipelineRunId) ==
  /\ id \notin jobIds(jobTable)
  /\ pipelineRunId \in DOMAIN runTable
  /\ jobTable' = createJob(jobTable, id, pipelineRunId, unixepoch)
  /\ UNCHANGED <<runTable, unixepoch, reopened>>
  /\ UNCHANGED outsideRecords

UpdateJobStatus(id, newStatus, opts) ==
  /\ jobTable' = updateJobStatus(jobTable, id, newStatus, opts)
  /\ UNCHANGED <<runTable, unixepoch, reopened>>
  /\ UNCHANGED outsideRecords

\* A second goes by.
Tick ==
  /\ unixepoch < MaxClock
  /\ unixepoch' = unixepoch + 1
  /\ UNCHANGED <<runTable, jobTable, reopened>>
  /\ UNCHANGED outsideRecords

\* The process ends and a new one opens the database.
Reopen ==
  /\ ~reopened
  /\ reopened' = TRUE
  /\ runTable' = ZephyrDatabase(runTable, jobTable).runs
  /\ jobTable' = ZephyrDatabase(runTable, jobTable).jobs
  /\ UNCHANGED unixepoch
  /\ UNCHANGED outsideRecords

\* Callers stamp a run or a job with the current time, or leave the stamp out.
Stamps == {0, unixepoch}

RecordsCreateRun == \E id \in RunRowIds : CreatePipelineRun(id)
RecordsUpdateRun ==
  \E id \in RunRowIds, st \in RecordStatus, sa \in Stamps, fa \in Stamps :
    UpdatePipelineRunStatus(id, st, [startedAt |-> sa, finishedAt |-> fa])
RecordsCreateJob == \E id \in JobRowIds, run \in RunRowIds : InsertJob(id, run)
RecordsUpdateJob ==
  \E id \in JobRowIds, st \in {"queued", "running", "failure"} :
    \E opts \in {[startedAt |-> 0, finishedAt |-> 0, exitCode |-> Null],
                 [startedAt |-> unixepoch, finishedAt |-> 0, exitCode |-> Null],
                 [startedAt |-> 0, finishedAt |-> unixepoch, exitCode |-> 1]} :
      UpdateJobStatus(id, st, opts)

InitRecords ==
  DagNone /\ VmManagerNew /\ ServerNone /\ AgentNone /\ StoreNew /\ RecordsNew /\ HostNew /\ HookNone /\ SigNone /\ CliNone /\ ConfigNone /\ CacheNew /\ ViewNone
NextRuns == RecordsCreateRun \/ RecordsUpdateRun \/ Tick
SpecRuns == InitRecords /\ [][NextRuns]_vars
NextQueue ==
  RecordsCreateRun \/ RecordsCreateJob \/ RecordsUpdateJob \/ Tick \/ Reopen
SpecQueue == InitRecords /\ [][NextQueue]_vars

(***************************************************************************)
(* Network: allocateNetwork and releaseNetwork                             *)
(***************************************************************************)
\* links: the TAP devices of the host with the address each carries;
\* masquerade: the number of POSTROUTING -o ext -j MASQUERADE rules;
\* forwardOut, forwardIn: the number of FORWARD rules per TAP device, from
\* it to the external interface and back; ipForward: net.ipv4.ip_forward;
\* configs: the VmNetworkConfig values callers hold, by slot index;
\* releases: the natInterface arguments of the releaseNetwork calls made for
\* a held configuration. An address is its four octets; there is one
\* external interface; the random guestMac is left out.
PoolSlots == 16384
BaseSubnet == <<172, 16>>
NetSlots == 0 .. (MaxSlots - 1)
Anchors == {0, 63, 64, PoolSlots - 1}

\* The values allocateNetwork computes with 2 for the 4 of the /30 stride.
allocateNetworkStrideTwo(index) ==
  LET thirdOctet == index \div 64
      fourthOctetBase == (index % 64) * 2
      hostIp == BaseSubnet \o <<thirdOctet, fourthOctetBase + 1>>
      guestIp == BaseSubnet \o <<thirdOctet, fourthOctetBase + 2>>
  IN [tap |-> [name |-> <<"tap", index>>, hostIp |-> hostIp,
               netmask |-> <<255, 255, 255, 252>>],
      guestIp |-> guestIp, gateway |-> hostIp, dns |-> <<8, 8, 8, 8>>]

\* The VmNetworkConfig allocateNetwork(vmId, index) returns.
allocateNetwork(index) ==
  LET thirdOctet == index \div 64
      fourthOctetBase == (index % 64) * 4
      hostIp == BaseSubnet \o <<thirdOctet, fourthOctetBase + 1>>
      guestIp == BaseSubnet \o <<thirdOctet, fourthOctetBase + 2>>
  IN [tap |-> [name |-> <<"tap", index>>, hostIp |-> hostIp,
               netmask |-> <<255, 255, 255, 252>>],
      guestIp |-> guestIp, gateway |-> hostIp, dns |-> <<8, 8, 8, 8>>]

\* A counted set of rules: iptables -A adds one more, iptables -D removes
\* one and fails when there is none.
count(rules, k) == IF k \in DOMAIN rules THEN rules[k] ELSE 0
append(rules, k) ==
  [j \in DOMAIN rules \cup {k} |-> IF j = k THEN count(rules, k) + 1 ELSE rules[j]]
delete(rules, k) ==
  IF count(rules, k) = 1 THEN [j \in DOMAIN rules \ {k} |-> rules[j]]
  ELSE [rules EXCEPT ![k] = @ - 1]

\* setupNat(tapName, externalInterface)
setupNat(net, tapName) ==
  [net EXCEPT !.ipForward = TRUE,
              !.masquerade = @ + 1,
              !.forwardOut = append(@, tapName),
              !.forwardIn = append(@, tapName)]

\* teardownNat that removes every MASQUERADE rule of the interface.
teardownNatEveryRule(net, tapName) ==
  IF net.masquerade = 0 THEN net
  ELSE LET n1 == [net EXCEPT !.masquerade = 0]
       IN IF count(n1.forwardOut, tapName) = 0 THEN n1
          ELSE LET n2 == [n1 EXCEPT !.forwardOut = delete(@, tapName)]
               IN IF count(n2.forwardIn, tapName) = 0 THEN n2
                  ELSE [n2 EXCEPT !.forwardIn = delete(@, tapName)]

\* teardownNat(tapName, externalInterface): the three deletions in one try
\* block, so the first that fails ends it.
teardownNat(net, tapName) ==
  IF net.masquerade = 0 THEN net
  ELSE LET n1 == [net EXCEPT !.masquerade = @ - 1]
       IN IF count(n1.forwardOut, tapName) = 0 THEN n1
          ELSE LET n2 == [n1 EXCEPT !.forwardOut = delete(@, tapName)]
               IN IF count(n2.forwardIn, tapName) = 0 THEN n2
                  ELSE [n2 EXCEPT !.forwardIn = delete(@, tapName)]

\* deleteTap(name): ip link del, its failure ignored.
deleteTap(net, tapName) ==
  [net EXCEPT !.links = [j \in DOMAIN net.links \ {tapName} |-> net.links[j]]]

\* releaseNetwork(config, natInterface)
releaseNetwork(net, config, nat) ==
  deleteTap(IF nat THEN teardownNat(net, config.tap.name) ELSE net, config.tap.name)

host ==
  [links |-> links, masquerade |-> masquerade, forwardOut |-> forwardOut,
   forwardIn |-> forwardIn, ipForward |-> ipForward]

SetHost(net) ==
  /\ links' = net.links
  /\ masquerade' = net.masquerade
  /\ forwardOut' = net.forwardOut
  /\ forwardIn' = net.forwardIn
  /\ ipForward' = net.ipForward

\* allocateNetwork(vmId, index, {natInterface}): createTap, then setupNat
\* when natInterface is given. With the device there already the ip commands
\* of createTap fail and the call throws before anything has changed.
AllocateNetwork(index, nat) ==
  /\ <<"tap", index>> \notin DOMAIN links
  /\ nat => /\ masquerade < MaxRules
            /\ count(forwardOut, <<"tap", index>>) < MaxRules
            /\ count(forwardIn, <<"tap", index>>) < MaxRules
  /\ LET config == allocateNetwork(index)
         created == [host EXCEPT !.links =
                       [j \in DOMAIN links \cup {config.tap.name} |->
                          IF j = config.tap.name THEN config.tap.hostIp ELSE links[j]]]
     IN /\ SetHost(IF nat THEN setupNat(created, config.tap.name) ELSE created)
        /\ configs' = [j \in DOMAIN configs \cup {index} |->
                         IF j = index THEN config ELSE configs[j]]
        /\ releases' = [j \in DOMAIN releases \cup {index} |->
                          IF j = index THEN <<>> ELSE releases[j]]
  /\ UNCHANGED outsideNet

\* releaseNetwork(config, natInterface) for a configuration a caller holds.
ReleaseNetwork(index, nat) ==
  /\ index \in DOMAIN configs
  /\ Len(releases[index]) < MaxReleases
  /\ SetHost(releaseNetwork(host, configs[index], nat))
  /\ releases' = [releases EXCEPT ![index] = Append(@, nat)]
  /\ UNCHANGED configs
  /\ UNCHANGED outsideNet

NetAllocate == \E index \in NetSlots, nat \in BOOLEAN : AllocateNetwork(index, nat)
NetRelease == \E index \in NetSlots, nat \in BOOLEAN : ReleaseNetwork(index, nat)

\* Any slot of the pool alone, or next to one of Anchors.
SlotsAllocate ==
  /\ DOMAIN configs \subseteq Anchors
  /\ Cardinality(DOMAIN configs) < 2
  /\ \E index \in 0 .. (PoolSlots - 1) : AllocateNetwork(index, FALSE)

InitNet ==
  DagNone /\ VmManagerNew /\ ServerNone /\ AgentNone /\ StoreNew /\ RecordsNew /\ HostNew /\ HookNone /\ SigNone /\ CliNone /\ ConfigNone /\ CacheNew /\ ViewNone
NextNet == NetAllocate \/ NetRelease
SpecNet == InitNet /\ [][NextNet]_vars
NextSlots == SlotsAllocate
SpecSlots == InitNet /\ [][NextSlots]_vars

\* Every VM is allocated with NAT on the one external interface and its
\* configuration is released once.
NatAllocate == \E index \in NetSlots : AllocateNetwork(index, TRUE)
ReleaseOnce ==
  \E index \in NetSlots, nat \in BOOLEAN :
    /\ index \in DOMAIN releases /\ releases[index] = <<>>
    /\ ReleaseNetwork(index, nat)
NextNat == NatAllocate \/ ReleaseOnce
SpecNat == InitNet /\ [][NextNat]_vars

(***************************************************************************)
(* Webhooks: shouldTriggerPipeline                                         *)
(***************************************************************************)
\* payload: the parsed delivery; triggers: the trigger rules of the
\* pipeline; triggered: what shouldTriggerPipeline returned for them. A
\* string is the sequence of its characters; a ref is <<>> when the payload
\* has none, else its prefix and the rest; files is what getChangedFiles
\* collects from the commits; action and refType are "" when left out. An
\* optional list of a rule is [given, list], the order of a list being of
\* no effect on some() and includes().
Branches == {<<"a">>, <<"a", "b">>}
Files == {<<"a">>, <<"b">>}
Patterns == {<<"a">>, <<"*">>, <<"b", "?">>}
Actions == {"opened", "closed"}
TriggerTypes == {"push", "pull_request", "tag", "schedule", "manual"}
FilterNames == {"branches", "branchesIgnore", "paths", "pathsIgnore", "prEvents"}
Absent == [given |-> FALSE, list |-> {}]
DefaultPrEvents == {"opened", "synchronize", "reopened"}

\* The refs of push deliveries: a branch or a tag.
Refs == {<<"refs/heads/", b>> : b \in Branches} \cup {<<"refs/tags/", <<"a">>>>}

\* What parseGitHubWebhook builds for the five event types.
Payloads ==
  {[eventType |-> "push", ref |-> r, files |-> f, action |-> "", refType |-> ""] :
     r \in Refs, f \in SUBSET Files}
    \cup {[eventType |-> "pull_request", ref |-> <<>>, files |-> {},
           action |-> a, refType |-> ""] : a \in Actions \cup {""}}
    \cup {[eventType |-> e, ref |-> <<"refs/heads/", <<"a">>>>, files |-> {},
           action |-> "", refType |-> t] :
            e \in {"create", "delete"}, t \in {"branch", "tag"}}
    \cup {[eventType |-> "workflow_dispatch", ref |-> <<>>, files |-> {},
           action |-> "", refType |-> ""]}

RECURSIVE matchesGlob(_, _)
\* matchesGlob(text, pattern): the pattern as an anchored regular
\* expression, * for any run of characters, ? for one character, every
\* other character for itself.
matchesGlob(text, pattern) ==
  IF pattern = <<>> THEN text = <<>>
  ELSE IF Head(pattern) = "*"
       THEN \E k \in 0..Len(text) :
              matchesGlob(SubSeq(text, k + 1, Len(text)), Tail(pattern))
       ELSE /\ text # <<>>
            /\ Head(pattern) = "?" \/ Head(pattern) = Head(text)
            /\ matchesGlob(Tail(text), Tail(pattern))

\* extractBranchFromRef(ref); <<>> for null.
extractBranchFromRef(ref) == IF ref[1] = "refs/heads/" THEN ref[2] ELSE <<>>

\* matchesTrigger with the whitelists looked at before the ignore lists.
matchesTriggerBranchesFirst(p, trigger) ==
  IF trigger.type = "push" /\ p.eventType # "push" THEN FALSE
  ELSE IF trigger.type = "pull_request" /\ p.eventType # "pull_request" THEN FALSE
  ELSE IF trigger.type = "tag" /\ p.eventType # "create" THEN FALSE
  ELSE LET branch == extractBranchFromRef(p.ref)
           listed(filter, text) ==
             \E pattern \in filter.list : matchesGlob(text, pattern)
           changed(filter) ==
             \E pattern \in filter.list : \E file \in p.files : matchesGlob(file, pattern)
           pushOk ==
             IF p.eventType = "push" /\ p.ref # <<>>
             THEN /\ branch # <<>> =>
                       IF trigger.branches.given
                       THEN listed(trigger.branches, branch)
                       ELSE ~listed(trigger.branchesIgnore, branch)
                  /\ (trigger.paths.given \/ trigger.pathsIgnore.given) =>
                       IF trigger.paths.given
                       THEN changed(trigger.paths)
                       ELSE ~changed(trigger.pathsIgnore)
             ELSE TRUE
           prOk ==
             IF p.eventType = "pull_request" /\ p.action # ""
             THEN p.action \in (IF trigger.prEvents.given
                                THEN trigger.prEvents.list ELSE DefaultPrEvents)
             ELSE TRUE
           tagOk ==
             trigger.type = "tag" => p.eventType = "create" /\ p.refType = "tag"
       IN pushOk /\ prOk /\ tagOk

\* matchesTrigger(payload, trigger)
matchesTrigger(p, trigger) ==
  IF trigger.type = "push" /\ p.eventType # "push" THEN FALSE
  ELSE IF trigger.type = "pull_request" /\ p.eventType # "pull_request" THEN FALSE
  ELSE IF trigger.type = "tag" /\ p.eventType # "create" THEN FALSE
  ELSE LET branch == extractBranchFromRef(p.ref)
           listed(filter, text) ==
             \E pattern \in filter.list : matchesGlob(text, pattern)
           changed(filter) ==
             \E pattern \in filter.list : \E file \in p.files : matchesGlob(file, pattern)
           pushOk ==
             IF p.eventType = "push" /\ p.ref # <<>>
             THEN /\ branch # <<>> =>
                       /\ ~listed(trigger.branchesIgnore, branch)
                       /\ trigger.branches.given => listed(trigger.branches, branch)
                  /\ (trigger.paths.given \/ trigger.pathsIgnore.given) =>
                       /\ ~changed(trigger.pathsIgnore)
                       /\ trigger.paths.given => changed(trigger.paths)
             ELSE TRUE
           prOk ==
             IF p.eventType = "pull_request" /\ p.action # ""
             THEN p.action \in (IF trigger.prEvents.given
                                THEN trigger.prEvents.list ELSE DefaultPrEvents)
             ELSE TRUE
           tagOk ==
             trigger.type = "tag" => p.eventType = "create" /\ p.refType = "tag"
       IN pushOk /\ prOk /\ tagOk

\* shouldTriggerPipeline(payload, triggers)
shouldTriggerPipeline(p, rules) ==
  \E i \in 1..Len(rules) : matchesTrigger(p, rules[i])

\* The entries of the optional lists of the rules, a list that is given and
\* empty counting for one.
filterEntries(rules) ==
  LET entries(filter) ==
        IF ~filter.given THEN 0
        ELSE IF filter.list = {} THEN 1 ELSE Cardinality(filter.list)
      RECURSIVE sum(_)
      sum(i) ==
        IF i = 0 THEN 0
        ELSE sum(i - 1) + entries(rules[i].branches) + entries(rules[i].branchesIgnore)
               + entries(rules[i].paths) + entries(rules[i].pathsIgnore)
               + entries(rules[i].prEvents)
  IN sum(Len(rules))

\* The pipeline definition gains a rule of the type, without a filter.
AddTrigger(type) ==
  /\ triggered = "none"
  /\ Len(triggers) < MaxTriggers
  /\ triggers' = Append(triggers,
                        [type |-> type, branches |-> Absent, branchesIgnore |-> Absent,
                         paths |-> Absent, pathsIgnore |-> Absent, prEvents |-> Absent])
  /\ UNCHANGED <<payload, triggered>>
  /\ UNCHANGED outsideHook

\* The last rule gains an optional list, empty, or one more entry of it.
AddFilter(name, entries) ==
  /\ triggered = "none"
  /\ triggers # <<>>
  /\ filterEntries(triggers) < MaxFilters
  /\ LET last == triggers[Len(triggers)]
     IN /\ entries # {} \/ ~last[name].given
        /\ ~(entries \subseteq last[name].list) \/ ~last[name].given
        /\ triggers' = [triggers EXCEPT ![Len(triggers)] =
                          [last EXCEPT ![name] =
                             [given |-> TRUE, list |-> last[name].list \cup entries]]]
  /\ UNCHANGED <<payload, triggered>>
  /\ UNCHANGED outsideHook

\* A delivery arrives: shouldTriggerPipeline(payload, pipeline.triggers).
ShouldTriggerPipeline(p) ==
  /\ triggered = "none"
  /\ payload' = p
  /\ triggered' = IF shouldTriggerPipeline(p, triggers) THEN "yes" ELSE "no"
  /\ UNCHANGED triggers
  /\ UNCHANGED outsideHook

DefineTrigger == \E type \in TriggerTypes : AddTrigger(type)
DefineFilter ==
  \/ \E name \in FilterNames \ {"prEvents"} :
       \E entries \in {{}} \cup {{pattern} : pattern \in Patterns} :
         AddFilter(name, entries)
  \/ \E entries \in {{}} \cup {{a} : a \in Actions} : AddFilter("prEvents", entries)
Deliver == \E p \in Payloads : ShouldTriggerPipeline(p)

InitHook ==
  /\ DagNone /\ VmManagerNew /\ ServerNone /\ AgentNone
  /\ StoreNew /\ RecordsNew /\ HostNew /\ HookNone /\ SigNone /\ CliNone /\ ConfigNone /\ CacheNew /\ ViewNone
NextHook == DefineTrigger \/ DefineFilter \/ Deliver
SpecHook == InitHook /\ [][NextHook]_vars

\* A pipeline with one rule.
DefineOnlyTrigger == triggers = <<>> /\ DefineTrigger
NextRule == DefineOnlyTrigger \/ DefineFilter \/ Deliver
SpecRule == InitHook /\ [][NextRule]_vars

(***************************************************************************)
(* Webhooks: verifyGitHubSignature                                         *)
(***************************************************************************)
\* secret: the webhook secret of both sides; body: the request body that
\* arrives; signed: the X-Hub-Signature-256 header the sender computed;
\* signature: the header that arrives, <<>> when there is none; tampered:
\* what was changed on the way; verified: what verifyGitHubSignature
\* returned. A string is the sequence of its characters, a body a sequence
\* of bytes.
Secrets == {1, 10}
BodyBytes == {0, 1}
Bodies == UNION {[1..n -> BodyBytes] : n \in 0..MaxBody}
HexLower ==
  <<"0", "1", "2", "3", "4", "5", "6", "7", "8", "9", "a", "b", "c", "d", "e", "f">>
HexUpper ==
  <<"0", "1", "2", "3", "4", "5", "6", "7", "8", "9", "A", "B", "C", "D", "E", "F">>
Sha256 == <<"s", "h", "a", "2", "5", "6">>
Sha1 == <<"s", "h", "a", "1">>
\* The characters a changed byte of the header may become.
HeaderChars == {"0", "1", "a", "A", "g", "=", "s", "S"}

\* createHmac("sha256", secret).update(payload).digest(): a keyed function
\* without collisions on the bodies above, as nibbles: the key, the length
\* and the bytes of the body, filled up with zeros to whole bytes.
DigestNibbles == 2 * ((MaxBody + 3) \div 2)
createHmac(key, data) ==
  [i \in 1..DigestNibbles |->
     IF i = 1 THEN key
     ELSE IF i = 2 THEN Len(data)
     ELSE IF i - 2 <= Len(data) THEN data[i - 2] ELSE 0]

\* digest("hex"): two lower-case digits per byte.
hex(nibbles) == [i \in 1..Len(nibbles) |-> HexLower[nibbles[i] + 1]]

\* The value of a hexadecimal digit of either case, -1 for another character.
hexValue(c) ==
  IF \E v \in 1..16 : HexLower[v] = c \/ HexUpper[v] = c
  THEN (CHOOSE v \in 1..16 : HexLower[v] = c \/ HexUpper[v] = c) - 1
  ELSE -1

RECURSIVE fromHex(_)
\* Buffer.from(string, "hex"): the bytes of the pairs of digits up to the
\* first pair that is not hexadecimal; a last single character is dropped.
fromHex(string) ==
  IF Len(string) < 2 \/ hexValue(string[1]) = -1 \/ hexValue(string[2]) = -1 THEN <<>>
  ELSE <<hexValue(string[1]) * 16 + hexValue(string[2])>>
         \o fromHex(SubSeq(string, 3, Len(string)))

\* The positions of "=" in a string, and signature.split("="): the parts
\* between them.
separators(string) == {i \in 1..Len(string) : string[i] = "="}
split(string) ==
  LET seps == separators(string)
      RECURSIVE parts(_)
      parts(from) ==
        IF \E i \in seps : i >= from
        THEN LET next == CHOOSE i \in seps : i >= from /\ \A j \in seps : j >= from => i <= j
             IN <<SubSeq(string, from, next - 1)>> \o parts(next + 1)
        ELSE <<SubSeq(string, from, Len(string))>>
  IN parts(1)

\* verifyGitHubSignature without the test of the algorithm.
verifyAnyAlgorithm(payloadBody, header, key) ==
  IF header = <<>> THEN FALSE
  ELSE LET parts == split(header)
           providedSignature == IF Len(parts) >= 2 THEN parts[2] ELSE <<>>
           expectedSignature == hex(createHmac(key, payloadBody))
       IN IF providedSignature = <<>> THEN FALSE
          ELSE fromHex(providedSignature) = fromHex(expectedSignature)

\* verifyGitHubSignature(payload, signature, secret); timingSafeEqual throws
\* for buffers of different lengths, which the catch turns into false.
verifyGitHubSignature(payloadBody, header, key) ==
  IF header = <<>> THEN FALSE
  ELSE LET parts == split(header)
           algorithm == parts[1]
           providedSignature == IF Len(parts) >= 2 THEN parts[2] ELSE <<>>
           expectedSignature == hex(createHmac(key, payloadBody))
       IN IF algorithm # Sha256 \/ providedSignature = <<>> THEN FALSE
          ELSE LET provided == fromHex(providedSignature)
                   expected == fromHex(expectedSignature)
               IN IF Len(provided) # Len(expected) THEN FALSE
                  ELSE provided = expected

\* The sender signs the body it sends.
Sign ==
  /\ signed = <<>>
  /\ signed' = Sha256 \o <<"=">> \o hex(createHmac(secret, body))
  /\ signature' = signed'
  /\ tampered' = "no"
  /\ UNCHANGED <<secret, body, verified>>
  /\ UNCHANGED outsideSig

\* One byte of the body is changed on the way.
ChangeBody(i, byte) ==
  /\ tampered = "no" /\ verified = "none"
  /\ i \in 1..Len(body) /\ body[i] # byte
  /\ body' = [body EXCEPT ![i] = byte]
  /\ tampered' = "body"
  /\ UNCHANGED <<secret, signed, signature, verified>>
  /\ UNCHANGED outsideSig

\* One byte of the header is changed on the way.
ChangeSignature(i, c) ==
  /\ tampered = "no" /\ verified = "none"
  /\ i \in 1..Len(signature) /\ signature[i] # c
  /\ signature' = [signature EXCEPT ![i] = c]
  /\ tampered' = "signature"
  /\ UNCHANGED <<secret, body, signed, verified>>
  /\ UNCHANGED outsideSig

\* The header is missing, or names another algorithm.
ReplaceSignature(kind) ==
  /\ tampered = "no" /\ verified = "none"
  /\ signature' = IF kind = "missing" THEN <<>>
                  ELSE Sha1 \o <<"=">> \o hex(createHmac(secret, body))
  /\ tampered' = kind
  /\ UNCHANGED <<secret, body, signed, verified>>
  /\ UNCHANGED outsideSig

\* The handler calls verifyGitHubSignature(body, signature, secret).
Verify ==
  /\ tampered # "none" /\ verified = "none"
  /\ verified' = IF verifyGitHubSignature(body, signature, secret) THEN "yes" ELSE "no"
  /\ UNCHANGED <<secret, body, signed, signature, tampered>>
  /\ UNCHANGED outsideSig

SigChangeBody == \E i \in 1..MaxBody, byte \in BodyBytes : ChangeBody(i, byte)
SigChangeSignature ==
  \E i \in 1..(Len(Sha256) + 1 + DigestNibbles), c \in HeaderChars : ChangeSignature(i, c)
SigReplaceSignature == \E kind \in {"missing", "algorithm"} : ReplaceSignature(kind)

InitSig ==
  /\ DagNone /\ VmManagerNew /\ ServerNone /\ AgentNone
  /\ StoreNew /\ RecordsNew /\ HostNew /\ HookNone /\ CliNone /\ ConfigNone /\ CacheNew /\ ViewNone
  /\ secret \in Secrets
  /\ body \in Bodies
  /\ signed = <<>> /\ signature = <<>> /\ tampered = "none" /\ verified = "none"
NextSig == Sign \/ SigChangeBody \/ SigChangeSignature \/ SigReplaceSignature \/ Verify
SpecSig == InitSig /\ [][NextSig]_vars

(***************************************************************************)
(* Local run: the run command                                              *)
(***************************************************************************)
\* jobDefs: the jobs of the pipeline "ci" in the order of the config, with
\* dependsOn (<<>> also when it is left out: both run the job) and
\* condition ("none" when left out, "function" for a callback);
\* runOptions: whether a config file is found, the names of the pipelines
\* it resolves to, the pipeline argument ("" when left out) and the --job
\* flag (-1 when left out); sortedJobs: what sortJobsByDependencies
\* returned; runResults: the status per job in results ("none" without an
\* entry); ranJobs: the jobs runJob was called for; runFailed: failed;
\* runIter: the position of the loop, 0 before the command has started;
\* exitCode: the exit code of the process, -1 while it runs; errorLogged:
\* the error the command ends with.
\* The names of the jobs of the pipeline.
CliJobs == DOMAIN jobDefs
UnknownName == 0
Conditions == {"none", "always", "on_success", "on_failure", "function"}
RunJobStatus == {"success", "failure", "cancelled", "skipped"}

RECURSIVE sortVisit(_, _, _, _)
RECURSIVE sortVisitDeps(_, _, _, _, _)
\* visit(job) of sortJobsByDependencies; st = [sorted, visited, visiting,
\* thrown], selected the names in jobMap.
sortVisit(defs, selected, name, st) ==
  IF st.thrown \/ name \in st.visited THEN st
  ELSE IF name \in st.visiting THEN [st EXCEPT !.thrown = TRUE]
  ELSE LET st1 == sortVisitDeps(defs, selected, defs[name].dependsOn, 1,
                                [st EXCEPT !.visiting = @ \cup {name}])
       IN IF st1.thrown THEN st1
          ELSE [st1 EXCEPT !.visiting = @ \ {name},
                           !.visited = @ \cup {name},
                           !.sorted = Append(@, name)]

sortVisitDeps(defs, selected, deps, i, st) ==
  IF st.thrown \/ i > Len(deps) THEN st
  ELSE sortVisitDeps(defs, selected, deps, i + 1,
                     IF deps[i] \in selected
                     THEN sortVisit(defs, selected, deps[i], st) ELSE st)

RECURSIVE sortLoop(_, _, _, _)
sortLoop(defs, jobsToRun, i, st) ==
  IF st.thrown \/ i > Len(jobsToRun) THEN st
  ELSE sortLoop(defs, jobsToRun, i + 1,
                sortVisit(defs, Range(jobsToRun), jobsToRun[i], st))

\* sortJobsByDependencies(jobs)
sortJobsByDependencies(defs, jobsToRun) ==
  sortLoop(defs, jobsToRun, 1,
           [sorted |-> <<>>, visited |-> {}, visiting |-> {}, thrown |-> FALSE])

\* selectJobs that leaves the --job flag unread.
selectJobsWholePipeline(opts) == [i \in CliJobs |-> i]

\* The jobs the command is to run: all of the pipeline, or the one of --job.
selectJobs(opts) ==
  IF opts.job = -1 THEN [i \in CliJobs |-> i] ELSE <<opts.job>>

\* The declarations of the jobs: dependsOn entries and conditions.
declarations(defs) ==
  LET RECURSIVE sum(_)
      sum(n) ==
        IF n = 0 THEN 0
        ELSE sum(n - 1) + Len(defs[n].dependsOn)
               + (IF defs[n].condition = "none" THEN 0 ELSE 1)
  IN sum(Len(defs))

\* The config gains a dependsOn entry.
CliDependsOn(name, dep) ==
  /\ runIter = 0 /\ exitCode = -1
  /\ declarations(jobDefs) < MaxDeclarations
  /\ dep \notin Range(jobDefs[name].dependsOn)
  /\ jobDefs' = [jobDefs EXCEPT ![name].dependsOn = Append(@, dep)]
  /\ UNCHANGED <<runOptions, sortedJobs, runResults, ranJobs, runFailed,
                 runIter, exitCode, errorLogged>>
  /\ UNCHANGED outsideCli

\* The config gains the condition of a job.
CliCondition(name, condition) ==
  /\ runIter = 0 /\ exitCode = -1
  /\ declarations(jobDefs) < MaxDeclarations
  /\ jobDefs[name].condition = "none"
  /\ jobDefs' = [jobDefs EXCEPT ![name].condition = condition]
  /\ UNCHANGED <<runOptions, sortedJobs, runResults, ranJobs, runFailed,
                 runIter, exitCode, errorLogged>>
  /\ UNCHANGED outsideCli

\* run(options) up to the loop over the jobs: the config and the pipeline
\* are looked up, the jobs selected and sorted. An error thrown by
\* sortJobsByDependencies reaches the catch of main, which exits with 1.
Run(opts) ==
  /\ runIter = 0 /\ exitCode = -1
  /\ runOptions' = opts
  /\ LET error ==
           IF ~opts.config THEN "no config"
           ELSE IF opts.pipelines = <<>> THEN "no pipelines"
           ELSE IF opts.pipeline # "" /\ opts.pipeline \notin Range(opts.pipelines)
                THEN "pipeline not found"
           ELSE IF opts.job # -1 /\ opts.job \notin CliJobs THEN "job not found"
           ELSE IF sortJobsByDependencies(jobDefs, selectJobs(opts)).thrown
                THEN "circular dependency"
           ELSE "none"
     IN /\ errorLogged' = error
        /\ exitCode' = IF error = "none" THEN -1 ELSE 1
        /\ sortedJobs' = IF error = "none"
                         THEN sortJobsByDependencies(jobDefs, selectJobs(opts)).sorted
                         ELSE <<>>
        /\ runIter' = IF error = "none" THEN 1 ELSE 0
  /\ UNCHANGED <<jobDefs, runResults, ranJobs, runFailed>>
  /\ UNCHANGED outsideCli

\* RunLoop that skips a job only for a dependency that ended in failure.
RunLoopFailureOnly(shouldRun, result) ==
  /\ exitCode = -1 /\ runIter \in 1..Len(sortedJobs)
  /\ LET name == sortedJobs[runIter]
         def == jobDefs[name]
         failedDep ==
           \E i \in 1..Len(def.dependsOn) :
             /\ def.dependsOn[i] \in CliJobs
             /\ runResults[def.dependsOn[i]] = "failure"
         skipped ==
           \/ failedDep
           \/ def.condition = "on_failure" /\ ~runFailed
           \/ def.condition = "function" /\ ~shouldRun
     IN /\ runResults' = [runResults EXCEPT ![name] = IF skipped THEN "skipped" ELSE result]
        /\ ranJobs' = IF skipped THEN ranJobs ELSE ranJobs \cup {name}
        /\ runFailed' = (runFailed \/ (~skipped /\ result = "failure"))
  /\ runIter' = runIter + 1
  /\ UNCHANGED <<jobDefs, runOptions, sortedJobs, exitCode, errorLogged>>
  /\ UNCHANGED outsideCli

\* One pass of the loop over sortedJobs: the job is skipped for a
\* dependency without a success in results, for on_failure when nothing has
\* failed, or for a callback that returns false (shouldRun); else runJob is
\* called and returns the status result.
RunLoop(shouldRun, result) ==
  /\ exitCode = -1 /\ runIter \in 1..Len(sortedJobs)
  /\ LET name == sortedJobs[runIter]
         def == jobDefs[name]
         failedDep ==
           \E i \in 1..Len(def.dependsOn) :
             \/ def.dependsOn[i] \notin CliJobs
             \/ runResults[def.dependsOn[i]] # "success"
         skipped ==
           \/ failedDep
           \/ def.condition = "on_failure" /\ ~runFailed
           \/ def.condition = "function" /\ ~shouldRun
     IN /\ runResults' = [runResults EXCEPT ![name] = IF skipped THEN "skipped" ELSE result]
        /\ ranJobs' = IF skipped THEN ranJobs ELSE ranJobs \cup {name}
        /\ runFailed' = (runFailed \/ (~skipped /\ result = "failure"))
  /\ runIter' = runIter + 1
  /\ UNCHANGED <<jobDefs, runOptions, sortedJobs, exitCode, errorLogged>>
  /\ UNCHANGED outsideCli

\* After the loop: process.exit(1) if (failed), else the function returns
\* and the process ends with 0.
RunEnds ==
  /\ exitCode = -1 /\ runIter = Len(sortedJobs) + 1
  /\ exitCode' = IF runFailed THEN 1 ELSE 0
  /\ errorLogged' = IF runFailed THEN "Pipeline failed" ELSE "none"
  /\ UNCHANGED <<jobDefs, runOptions, sortedJobs, runResults, ranJobs, runFailed, runIter>>
  /\ UNCHANGED outsideCli

RunOptions ==
  [config : BOOLEAN, pipelines : {<<>>, <<"ci">>}, pipeline : {"", "ci", "nightly"},
   job : {-1, UnknownName} \cup CliJobs]

CliDefineDependsOn ==
  \E name \in CliJobs, dep \in CliJobs \cup {UnknownName} : CliDependsOn(name, dep)
CliDefineCondition ==
  \E name \in CliJobs, condition \in Conditions \ {"none"} : CliCondition(name, condition)
CliRun == \E opts \in RunOptions : Run(opts)
CliRunLoop == \E shouldRun \in BOOLEAN, result \in RunJobStatus : RunLoop(shouldRun, result)

InitCli ==
  /\ DagNone /\ VmManagerNew /\ ServerNone /\ AgentNone
  /\ StoreNew /\ RecordsNew /\ HostNew /\ HookNone /\ SigNone /\ CliNone /\ ConfigNone /\ CacheNew /\ ViewNone
NextCli == CliDefineDependsOn \/ CliDefineCondition \/ CliRun \/ CliRunLoop \/ RunEnds
SpecCli == InitCli /\ [][NextCli]_vars

\* The pipeline of four jobs, to which dependencies between the jobs and
\* on_failure conditions are added, run as a whole with jobs that succeed
\* or fail.
SkipNone ==
  /\ jobDefs = [name \in 1..MaxSkipJobs |-> [dependsOn |-> <<>>, condition |-> "none"]]
  /\ runOptions = [config |-> TRUE, pipelines |-> <<>>, pipeline |-> "", job |-> -1]
  /\ sortedJobs = <<>>
  /\ runResults = [name \in 1..MaxSkipJobs |-> "none"]
  /\ ranJobs = {}
  /\ runFailed = FALSE
  /\ runIter = 0
  /\ exitCode = -1
  /\ errorLogged = "none"
SkipDefineDependsOn ==
  \E name \in CliJobs : \E dep \in CliJobs \ {name} : CliDependsOn(name, dep)
SkipDefineCondition == \E name \in CliJobs : CliCondition(name, "on_failure")
SkipRun == Run([config |-> TRUE, pipelines |-> <<"ci">>, pipeline |-> "", job |-> -1])
SkipRunLoop == \E result \in {"success", "failure"} : RunLoop(TRUE, result)

InitSkip ==
  /\ DagNone /\ VmManagerNew /\ ServerNone /\ AgentNone
  /\ StoreNew /\ RecordsNew /\ HostNew /\ HookNone /\ SigNone /\ SkipNone /\ ConfigNone /\ CacheNew /\ ViewNone
NextSkip == SkipDefineDependsOn \/ SkipDefineCondition \/ SkipRun \/ SkipRunLoop \/ RunEnds
SpecSkip == InitSkip /\ [][NextSkip]_vars

(***************************************************************************)
(* Cache manager                                                           *)
(***************************************************************************)
\* cacheEntries: the rows of cache_entries, key -> [size, created_at,
\* last_accessed_at, expires_at, rowid]; rowid is the rank of the rowid of
\* the row among those of the table; an archive file exists for every row.
\* cacheClock: Date.now(). cacheOp: the last call: for has and restore the
\* result (hit, and the key of the entry that was restored) and the keys
\* and prefixes looked up, for save the rows enforceMaxSize deleted, in the
\* order of deletion, each with its last_accessed_at.
CacheKeys == {<<"a">>, <<"a", "b">>, <<"c">>}
Prefixes == {<<"a">>}
ArchiveSizes == {5, 6}
Ttls == {1}
\* options.maxSize, and the part of it that enforceMaxSize keeps.
maxSize == 10
KeepTenths == 9
\* What reading a property that the row does not have gives.
Undefined == -1

isPrefix(prefix, key) ==
  Len(prefix) <= Len(key) /\ SubSeq(key, 1, Len(prefix)) = prefix

\* findEntry(key): null (<<>>) or the row. The columns of the row are
\* created_at, last_accessed_at and expires_at; the properties createdAt,
\* lastAccessedAt and expiresAt of the result are read from the row under
\* these camel-case names, which it does not have.
findEntry(entries, key) ==
  IF key \notin DOMAIN entries THEN <<>>
  ELSE [key |-> key, size |-> entries[key].size,
        created_at |-> entries[key].created_at,
        last_accessed_at |-> entries[key].last_accessed_at,
        expires_at |-> entries[key].expires_at,
        createdAt |-> Undefined, lastAccessedAt |-> Undefined, expiresAt |-> Undefined]

\* findEntryByPrefix(prefix): the possible results; the rows that match the
\* prefix and have expires_at > now, the newest first, ties in any order.
findEntryByPrefix(entries, prefix, now) ==
  LET matching == {k \in DOMAIN entries :
                     isPrefix(prefix, k) /\ entries[k].expires_at > now}
      newest == {k \in matching :
                   \A j \in matching : entries[j].created_at <= entries[k].created_at}
  IN IF matching = {} THEN {<<>>} ELSE {findEntry(entries, k) : k \in newest}

\* isExpired(entry): Date.now() > entry.expiresAt, false when the right side
\* is undefined.
isExpired(entry, now) ==
  IF entry.expiresAt = Undefined THEN FALSE ELSE now > entry.expiresAt

\* restoreEntry(entry, workdir): [restored, entries]; extracted: tar -xzf
\* succeeded.
restoreEntry(entries, entry, now, extracted) ==
  IF isExpired(entry, now) THEN [restored |-> FALSE, entries |-> entries]
  ELSE IF ~extracted THEN [restored |-> FALSE, entries |-> entries]
  ELSE [restored |-> TRUE,
        entries |-> [entries EXCEPT ![entry.key].last_accessed_at = now]]

\* has(key)
has(entries, key, now) ==
  findEntry(entries, key) # <<>> /\ ~isExpired(findEntry(entries, key), now)

RECURSIVE restoreKeysLoop(_, _, _, _, _, _)
\* for (const restoreKey of restoreKeys): the possible outcomes.
restoreKeysLoop(entries, restoreKeys, i, now, extracted, tried) ==
  IF i > Len(restoreKeys)
  THEN {[hit |-> FALSE, hitKey |-> <<>>, entries |-> entries, tried |-> tried]}
  ELSE UNION {
         IF prefixEntry = <<>>
         THEN restoreKeysLoop(entries, restoreKeys, i + 1, now, extracted,
                              Append(tried, restoreKeys[i]))
         ELSE LET r == restoreEntry(entries, prefixEntry, now, extracted)
              IN IF r.restored
                 THEN {[hit |-> TRUE, hitKey |-> prefixEntry.key, entries |-> r.entries,
                        tried |-> Append(tried, restoreKeys[i])]}
                 ELSE restoreKeysLoop(r.entries, restoreKeys, i + 1, now, extracted,
                                      Append(tried, restoreKeys[i])) :
         prefixEntry \in findEntryByPrefix(entries, restoreKeys[i], now)}

\* restore(options): the possible outcomes [hit, hitKey, entries, tried].
restore(entries, key, restoreKeys, now, extracted) ==
  LET entry == findEntry(entries, key)
      r == restoreEntry(entries, entry, now, extracted)
  IN IF entry # <<>> /\ r.restored
     THEN {[hit |-> TRUE, hitKey |-> key, entries |-> r.entries, tried |-> <<key>>]}
     ELSE restoreKeysLoop(IF entry # <<>> THEN r.entries ELSE entries,
                          restoreKeys, 1, now, extracted, <<key>>)

RECURSIVE sumSizes(_, _)
sumSizes(entries, keys) ==
  IF keys = {} THEN 0
  ELSE LET k == CHOOSE k \in keys : TRUE
       IN entries[k].size + sumSizes(entries, keys \ {k})

\* getStats().totalSize: the sizes of the rows with expires_at > now.
totalSize(entries, now) ==
  sumSizes(entries, {k \in DOMAIN entries : entries[k].expires_at > now})

\* ORDER BY last_accessed_at ASC over all rows: the scan of
\* idx_cache_accessed, which has the rows of one last_accessed_at in the
\* order of their rowids.
orderByLastAccessed(entries) ==
  LET earlier(j, k) ==
        \/ entries[j].last_accessed_at < entries[k].last_accessed_at
        \/ /\ entries[j].last_accessed_at = entries[k].last_accessed_at
           /\ entries[j].rowid < entries[k].rowid
  IN [i \in 1..Cardinality(DOMAIN entries) |->
        CHOOSE k \in DOMAIN entries :
          Cardinality({j \in DOMAIN entries : earlier(j, k)}) = i - 1]

RECURSIVE deleteLoop(_, _, _, _, _)
\* for (const entry of toDelete): [entries, evicted]
deleteLoop(entries, toDelete, i, currentSize, evicted) ==
  IF i > Len(toDelete) \/ currentSize * 10 <= maxSize * KeepTenths
  THEN [entries |-> entries, evicted |-> evicted]
  ELSE deleteLoop([k \in DOMAIN entries \ {toDelete[i]} |-> entries[k]], toDelete, i + 1,
                  currentSize - entries[toDelete[i]].size,
                  Append(evicted, <<toDelete[i], entries[toDelete[i]].last_accessed_at>>))

\* enforceMaxSize(): [entries, evicted]
enforceMaxSize(entries, now) ==
  IF totalSize(entries, now) <= maxSize THEN [entries |-> entries, evicted |-> <<>>]
  ELSE deleteLoop(entries, orderByLastAccessed(entries), 1, totalSize(entries, now), <<>>)

\* INSERT OR REPLACE: the row of the key, if any, is deleted and the new row
\* gets the largest rowid.
insertOrReplace(entries, key, row) ==
  LET kept == DOMAIN entries \ {key}
      rank(k) == Cardinality({j \in kept : entries[j].rowid <= entries[k].rowid})
  IN [k \in kept \cup {key} |->
        IF k = key THEN [row EXCEPT !.rowid = Cardinality(kept) + 1]
        ELSE [entries[k] EXCEPT !.rowid = rank(k)]]

\* save(options): [entries, evicted]; size is the size of the archive, ttl
\* in ticks of the clock.
save(entries, key, size, ttl, now) ==
  enforceMaxSize(insertOrReplace(entries, key,
                                 [size |-> size, created_at |-> now, last_accessed_at |-> now,
                                  expires_at |-> now + ttl, rowid |-> 0]),
                 now)

Save(key, size, ttl) ==
  /\ LET r == save(cacheEntries, key, size, ttl, cacheClock)
     IN /\ cacheEntries' = r.entries
        /\ cacheOp' = [op |-> "save", key |-> key, hit |-> FALSE, hitKey |-> <<>>,
                       tried |-> <<>>, evicted |-> r.evicted]
  /\ UNCHANGED cacheClock
  /\ UNCHANGED outsideCache

Has(key) ==
  /\ cacheOp' = [op |-> "has", key |-> key, hit |-> has(cacheEntries, key, cacheClock),
                 hitKey |-> key, tried |-> <<key>>, evicted |-> <<>>]
  /\ UNCHANGED <<cacheEntries, cacheClock>>
  /\ UNCHANGED outsideCache

Restore(key, restoreKeys, extracted) ==
  /\ \E r \in restore(cacheEntries, key, restoreKeys, cacheClock, extracted) :
       /\ cacheEntries' = r.entries
       /\ cacheOp' = [op |-> "restore", key |-> key, hit |-> r.hit, hitKey |-> r.hitKey,
                      tried |-> r.tried, evicted |-> <<>>]
  /\ UNCHANGED cacheClock
  /\ UNCHANGED outsideCache

\* Time passes.
CacheTick ==
  /\ cacheClock < MaxCacheClock
  /\ cacheClock' = cacheClock + 1
  /\ UNCHANGED <<cacheEntries, cacheOp>>
  /\ UNCHANGED outsideCache

RestoreKeys == {<<>>} \cup {<<prefix>> : prefix \in Prefixes}
CacheSave == \E key \in CacheKeys, size \in ArchiveSizes, ttl \in Ttls : Save(key, size, ttl)
CacheHas == \E key \in CacheKeys : Has(key)
CacheRestore ==
  \E key \in CacheKeys, restoreKeys \in RestoreKeys, extracted \in BOOLEAN :
    Restore(key, restoreKeys, extracted)

InitCache ==
  /\ DagNone /\ VmManagerNew /\ ServerNone /\ AgentNone
  /\ StoreNew /\ RecordsNew /\ HostNew /\ HookNone /\ SigNone /\ CliNone /\ ConfigNone /\ CacheNew /\ ViewNone
NextCache == CacheSave \/ CacheHas \/ CacheRestore \/ CacheTick
SpecCache == InitCache /\ [][NextCache]_vars

(***************************************************************************)
(* Properties of the DAG engine                                            *)
(***************************************************************************)
\* Graph notions used to state the properties, independent of the traversals
\* of the implementation.
DependsDirect(dag, n) == Range(dag[n]) \cap Ids

RECURSIVE DepClosure(_, _, _)
DepClosure(dag, S, k) ==
  IF k = 0 THEN S
  ELSE DepClosure(dag, S \cup UNION {DependsDirect(dag, m) : m \in S}, k - 1)

\* Every node the dependencies of n include, directly or indirectly.
TransDeps(dag, n) == DepClosure(dag, DependsDirect(dag, n), MaxNodes)

DepsExist(dag) == \A n \in Ids : Range(dag[n]) \subseteq Ids
Acyclic(dag) == \A n \in Ids : n \notin TransDeps(dag, n)

NoReady == \A n \in Ids : status[n] # "ready"
AllTerminal == \A n \in Ids : status[n] \in Terminal

\* C1 -- DAG completion: from any accepted DAG, completing ready nodes one at
\* a time with arbitrary outcomes comes to an end (eventually no node is ready,
\* for good), and whenever no node is ready every node is terminal.
DagCompletion ==
  /\ [](built = "ok" /\ NoReady => AllTerminal)
  /\ <>[](built # "no" /\ NoReady)

DagCompletionWitness ==
  /\ built = "ok" /\ NoReady
  /\ \E a, b, c \in Ids :
       status[a] = "failure" /\ status[b] = "skipped" /\ status[c] = "success"

\* The step is the call markJobCompleted(X, success) on the built dag.
Completes(X, success) ==
  /\ built = "ok"
  /\ status'[X] = (IF success THEN "success" ELSE "failure")
  /\ MarkJobCompleted(X, success)

RECURSIVE DependentClosure(_, _)
DependentClosure(S, k) ==
  IF k = 0 THEN S
  ELSE DependentClosure(S \cup {n \in Ids : Range(jobs[n]) \cap S # {}}, k - 1)

\* Every node that depends on X, directly or indirectly.
Dependents(X) == DependentClosure({n \in Ids : X \in Range(jobs[n])}, MaxNodes)

\* C2 (as claimed) -- in every state the calls can reach,
\* markJobCompleted(X, false) leaves skipped every node that transitively
\* depends on X and was not terminal before the call.
SkipPropagationAnyNonTerminal ==
  built = "ok" =>
    \A X \in Ids :
      LET after == markJobCompleted(jobs, status, X, FALSE).status
      IN \A n \in Dependents(X) : status[n] \notin Terminal => after[n] = "skipped"

\* C2 (amended) -- in every state the calls can reach,
\* markJobCompleted(X, false) sets X to failure, skips every node that
\* transitively depends on X and was pending or ready before the call, and
\* leaves every other node as it was (a running dependent stays running).
SkipPropagation ==
  built = "ok" =>
    \A X \in Ids :
      LET after == markJobCompleted(jobs, status, X, FALSE).status
          deps == Dependents(X)
      IN /\ after[X] = "failure"
         /\ \A n \in Ids \ {X} :
              after[n] = IF n \in deps /\ status[n] \in {"pending", "ready"}
                         THEN "skipped" ELSE status[n]

\* A failed node with an indirect dependent that was skipped.
SkipPropagationWitness ==
  /\ built = "ok"
  /\ \E X, m, n \in Ids :
       /\ X \in Range(jobs[m]) /\ m \in Range(jobs[n]) /\ X \notin Range(jobs[n])
       /\ status[X] = "failure" /\ status[m] = "skipped" /\ status[n] = "skipped"

\* C3 -- buildDag accepts the nodes iff every dependency names a node and the
\* dependency relation has no cycle; otherwise it throws and no node gets a
\* status.
BuildDagAccepts ==
  built # "no" =>
    /\ built = "ok" <=> (DepsExist(jobs) /\ Acyclic(jobs))
    /\ built # "ok" => \A n \in Ids : status[n] = "none"
    /\ built = "ok" => \A n \in Ids : status[n] \in JobStatus

\* A graph rejected only for a cycle through two nodes.
BuildDagAcceptsWitness ==
  /\ built = "circular dependency"
  /\ \E a, b \in Ids : a # b /\ a \in Range(jobs[b]) /\ b \in Range(jobs[a])
  /\ \A n \in Ids : n \notin Range(jobs[n])

\* C4 -- for an accepted DAG getTopologicalOrder returns every id exactly once
\* and every dependency of a node before the node.
TopologicalOrder ==
  order # <<>> =>
    /\ Len(order) = MaxNodes
    /\ Range(order) = Ids
    /\ \A i, j \in 1..Len(order) : order[j] \in Range(jobs[order[i]]) => j < i

\* An order that is not the insertion order.
TopologicalOrderWitness ==
  /\ order # <<>>
  /\ \E i \in 1..Len(order) : order[i] # i
  /\ \E n \in Ids : Len(jobs[n]) = 2

\* The transitions of the per-node state machine.
Allowed(from, to) ==
  \/ from = "pending" /\ to = "ready"
  \/ from = "ready" /\ to = "running"
  \/ from = "running" /\ to \in {"success", "failure"}
  \/ from \in {"pending", "ready", "running"} /\ to \in {"skipped", "cancelled"}

\* C5 (as claimed) -- under any sequence of calls a node changes status only
\* along the state machine, and never leaves a terminal status.
NodeStateMachineAnyCall ==
  [][\A n \in Ids : (built = "ok" /\ status'[n] # status[n]) => Allowed(status[n], status'[n])]_vars

\* C5 (amended) -- a node changes status only along the state machine, except
\* the node passed to markJobCompleted, which is set to success or failure
\* whatever its status was.
NodeStateMachine ==
  [][\A n \in Ids :
       (built = "ok" /\ status'[n] # status[n]) =>
         \/ Allowed(status[n], status'[n])
         \/ Completes(n, TRUE)
         \/ Completes(n, FALSE)]_vars

\* Every call has acted: one node ran and succeeded, a dependent became ready
\* and was cancelled.
NodeStateMachineWitness ==
  /\ built = "ok"
  /\ \E a, b \in Ids : a \in Range(jobs[b]) /\ status[a] = "success" /\ status[b] = "cancelled"
  /\ \E c \in Ids : status[c] = "running"

\* C6 -- in every state the calls can reach, markJobCompleted(id, true) sets
\* id to success, makes ready exactly the other nodes that were pending and
\* whose dependencies are all success after the call, returns exactly those
\* (each once) and changes nothing else.
NewlyReadyExact ==
  built = "ok" =>
    \A id \in Ids :
      LET r == markJobCompleted(jobs, status, id, TRUE)
          becomes == {n \in Ids \ {id} :
                        status[n] = "pending"
                        /\ \A d \in Range(jobs[n]) : r.status[d] = "success"}
      IN /\ r.status[id] = "success"
         /\ \A n \in Ids \ {id} :
              r.status[n] = IF n \in becomes THEN "ready" ELSE status[n]
         /\ Range(r.newlyReady) = becomes
         /\ Len(r.newlyReady) = Cardinality(becomes)

\* A fan-in node that has just been returned as newly ready.
NewlyReadyExactWitness ==
  /\ built = "ok"
  /\ \E n \in Range(newlyReady) :
       /\ Len(jobs[n]) = 2 /\ status[n] = "ready"
       /\ \A d \in Range(jobs[n]) : status[d] = "success"

\* C7 (as claimed) -- in every state the calls can reach, cancelAllJobs
\* cancels every node that is pending, ready or running and keeps the status
\* of every terminal node.
CancelAllNonTerminal ==
  built = "ok" =>
    \A n \in Ids :
      cancelAllJobs(status)[n] = IF status[n] \in Terminal THEN status[n] ELSE "cancelled"

\* C7 (amended) -- in every state the calls can reach, cancelAllJobs cancels
\* every node that is pending or ready; a running node stays running and a
\* terminal node keeps its status.
CancelAllPendingReady ==
  built = "ok" =>
    \A n \in Ids :
      cancelAllJobs(status)[n] = IF status[n] \in {"pending", "ready"}
                                 THEN "cancelled" ELSE status[n]

\* cancelAllJobs has acted while a node was running.
CancelAllWitness ==
  /\ built = "ok"
  /\ \E a, b \in Ids : status[a] = "running" /\ status[b] = "cancelled"
  /\ \A n \in Ids : status[n] \notin {"pending", "ready"}

(***************************************************************************)
(* Properties of the VM manager                                            *)
(***************************************************************************)
VmUntouched == UNCHANGED <<instances, procs, socket>>

\* The step is a call of op (every call of the manager records itself in vmOp).
VmCalled(op) == vmOp'.op = op /\ vmOp' # vmOp

\* C9 -- destroy is idempotent: destroy(id) never throws; on a registered id it
\* unregisters the instance, leaves its process not alive and its socket file
\* removed and touches no other instance; on an unregistered id it changes
\* nothing, so a second destroy(id) right after the first changes nothing.
DestroyIdempotent ==
  [][VmCalled("destroy") =>
       LET id == vmOp'.id
       IN /\ ~vmOp'.err
          /\ instances'[id].state = "none"
          /\ instances[id].state # "none" =>
               /\ procs'[instances[id].process] # "alive"
               /\ ~socket'[id]
               /\ \A other \in VmIds \ {id} : instances'[other] = instances[other]
          /\ instances[id].state = "none" => VmUntouched
          /\ vmOp'.again => VmUntouched]_vars

\* destroy(id) called twice in a row, with no live process and no socket left.
DestroyIdempotentWitness ==
  /\ vmOp.op = "destroy" /\ vmOp.again /\ ~vmOp.err
  /\ instances[vmOp.id].state = "none" /\ ~socket[vmOp.id]
  /\ \E p \in ProcIds : procs[p] \in {"signalled", "exited"}
  /\ \A p \in ProcIds : procs[p] # "alive"

\* C10 -- start(id) on a configuring instance sends InstanceStart and, when the
\* request succeeds, moves the instance to running; when the request fails it
\* throws and the instance stays configuring.  In any other state, or for an
\* unknown id, it throws without sending anything.  No instance changes state
\* otherwise, so running is entered from configuring only.
StartOnlyFromConfiguring ==
  [][(VmCalled("start") =>
       LET id == vmOp'.id
       IN IF instances[id].state = "configuring"
          THEN /\ vmOp'.sent = <<"InstanceStart">>
               /\ instances' = IF vmOp'.err THEN instances
                               ELSE [instances EXCEPT ![id].state = "running"]
          ELSE /\ vmOp'.err /\ vmOp'.sent = <<>>
               /\ instances' = instances) /\
     \A id \in VmIds :
       (instances'[id].state = "running" /\ instances[id].state # "running") =>
         (VmCalled("start") /\ vmOp'.id = id /\ instances[id].state = "configuring")]_vars

\* start threw on a stopped instance without sending InstanceStart.
StartOnlyFromConfiguringWitness ==
  /\ vmOp.op = "start" /\ vmOp.err /\ vmOp.sent = <<>>
  /\ instances[vmOp.id].state = "stopped"

\* C11 -- stop is idempotent: stop(id) on a registered instance that is not
\* running returns without sending anything and without changing anything;
\* stop on a running instance returns with the instance stopped; a stop(id)
\* right after a stop(id) sends nothing and changes nothing.
StopIdempotent ==
  [][VmCalled("stop") =>
       LET id == vmOp'.id
       IN /\ instances[id].state \notin {"none", "running"} =>
               ~vmOp'.err /\ vmOp'.sent = <<>> /\ VmUntouched
          /\ instances[id].state = "running" =>
               ~vmOp'.err /\ instances'[id].state = "stopped"
          /\ vmOp'.again => vmOp'.sent = <<>> /\ VmUntouched]_vars

\* stop(id) called twice in a row on an instance the first call stopped.
StopIdempotentWitness ==
  /\ vmOp.op = "stop" /\ vmOp.again /\ ~vmOp.err /\ vmOp.sent = <<>>
  /\ instances[vmOp.id].state = "stopped"

\* The times at which the poll loop of stop(id, timeoutMs) reads exitCode.
PollTimes(timeoutMs) == {k * PollMs : k \in 0..(timeoutMs \div PollMs)} \cap 0..(timeoutMs - 1)

\* The process is gone before timeoutMs has elapsed since the call.
ExitsWithin(id, timeoutMs, reqOk, exitMs) ==
  \/ ~exitCodeNull(procs, instances[id].process)
  \/ reqOk /\ exitMs < timeoutMs

\* Some read of exitCode by the poll loop comes after the exit.
ExitPolled(id, timeoutMs, reqOk, exitMs) ==
  \E t \in PollTimes(timeoutMs) :
    \/ ~exitCodeNull(procs, instances[id].process)
    \/ reqOk /\ exitMs <= t

\* C12 (as claimed) -- in every state the calls can reach, stop on a running
\* VM sends ctrl-alt-del first, and SIGKILL only on expiry: only when the
\* request went through and the process has not exited within the timeout.
StopKillsOnlyOnExpiry ==
  \A id \in VmIds :
    instances[id].state = "running" =>
      \A timeoutMs \in StopTimeouts, exitMs \in ExitTimes, reqOk \in BOOLEAN :
        LET r == stopRunning(instances[id], procs, timeoutMs, reqOk, exitMs)
        IN /\ r.sent[1] = "SendCtrlAltDel"
           /\ "SIGKILL" \in Range(r.sent) =>
                reqOk /\ ~ExitsWithin(id, timeoutMs, reqOk, exitMs)

\* C12 (amended) -- in every state the calls can reach, stop on a running VM
\* sends ctrl-alt-del first; SIGKILL follows exactly when the ctrl-alt-del
\* request fails or no read of exitCode by the poll loop (every 100 ms while
\* less than the timeout has elapsed) finds the process exited; when a read
\* finds it exited nothing more is sent.
StopKillsUnlessExitPolled ==
  \A id \in VmIds :
    instances[id].state = "running" =>
      \A timeoutMs \in StopTimeouts, exitMs \in ExitTimes, reqOk \in BOOLEAN :
        LET r == stopRunning(instances[id], procs, timeoutMs, reqOk, exitMs)
        IN /\ r.sent[1] = "SendCtrlAltDel"
           /\ Len(r.sent) <= 2
           /\ Len(r.sent) = 2 => r.sent[2] = "SIGKILL"
           /\ Len(r.sent) = 2 <=>
                (~reqOk \/ ~ExitPolled(id, timeoutMs, reqOk, exitMs))

\* stop has sent SIGKILL after ctrl-alt-del to a process that had exited by
\* itself.
StopKillsWitness ==
  /\ vmOp.op = "stop" /\ vmOp.sent = <<"SendCtrlAltDel", "SIGKILL">>
  /\ instances[vmOp.id].state = "stopped"
  /\ procs[instances[vmOp.id].process] = "exited"

(***************************************************************************)
(* Properties of the scheduler                                             *)
(***************************************************************************)
RunningJobs == {rn \in RunIds \X Ids : runJobs[rn[1]][rn[2]] = "running"}

\* The maximum the operator configured: maxJobs when given, else 4.
ConfiguredMax == IF options.maxJobs = <<>> THEN 4 ELSE options.maxJobs[1]

\* C8 -- concurrency cap: across all runs the number of running jobs never
\* exceeds the configured maximum, and a job is dispatched only from a state
\* where fewer jobs than the maximum are in flight.
ConcurrencyCap ==
  /\ [](Cardinality(RunningJobs) <= ConfiguredMax /\ inflight = Cardinality(RunningJobs))
  /\ [][inflight' > inflight => inflight < ConfiguredMax]_vars

\* The default cap is reached while another job is ready and waits.
ConcurrencyCapWitness ==
  /\ options.maxJobs = <<>>
  /\ Cardinality(RunningJobs) = 4
  /\ \E r \in RunIds : hasReady(r)

(***************************************************************************)
(* Properties of the guest agent                                           *)
(***************************************************************************)
\* Some step before step k failed without continueOnError.
HardFailureBefore(k) ==
  \E j \in 1..(k - 1) : results[j].status = "failure" /\ ~job.steps[j].continueOnError

\* Some step before step k failed.
FailureBefore(k) == \E j \in 1..(k - 1) : results[j].status = "failure"

\* C13 (as claimed) -- the results are those of the steps in declared order,
\* and a step is skipped exactly when some earlier step failed without
\* continueOnError.
SkippedAfterEarlierFailure ==
  \A k \in 1..Len(results) :
    /\ results[k].id = k
    /\ results[k].status = "skipped" <=> HardFailureBefore(k)

\* C13 (amended) -- the results are those of the steps in declared order, and
\* a step is skipped exactly when some earlier step failed without
\* continueOnError and the step itself is not continueOnError.
SkippedUnlessContinueOnError ==
  \A k \in 1..Len(results) :
    /\ results[k].id = k
    /\ results[k].status = "skipped" <=>
         (HardFailureBefore(k) /\ ~job.steps[k].continueOnError)

\* A step skipped after a failure, in a finished job.
SkippedWitness ==
  /\ jobResult = "failure" /\ Len(results) = 2
  /\ results[1].status = "failure" /\ results[2].status = "skipped"

\* The loop iteration for step k marked it skipped and spawned nothing.
MarkedSkipped(k) ==
  /\ Len(results') = Len(results) + 1
  /\ results'[Len(results')].id = k /\ results'[Len(results')].status = "skipped"
  /\ exec' = exec

\* The loop iteration for step k spawned its command and recorded nothing.
Executed(k) ==
  /\ results' = results
  /\ exec.pc = "idle" /\ exec'.pc = "reading" /\ exec'.id = k /\ exec'.proc = "running"

\* C14 (as claimed) -- the loop marks the step skipped, without executing
\* it, exactly when a prior step failed and the step is not continueOnError,
\* whether or not the prior step was continueOnError; otherwise it executes it.
LoopSkipsAfterAnyFailure ==
  [][iter' # iter =>
       IF FailureBefore(iter) /\ ~job.steps[iter].continueOnError
       THEN MarkedSkipped(iter) ELSE Executed(iter)]_vars

\* C14 (amended) -- the loop marks the step skipped, without executing it,
\* exactly when a prior step failed without continueOnError and the step is
\* not continueOnError; otherwise it executes it.
LoopSkipsAfterHardFailure ==
  [][iter' # iter =>
       IF HardFailureBefore(iter) /\ ~job.steps[iter].continueOnError
       THEN MarkedSkipped(iter) ELSE Executed(iter)]_vars

\* A step without continueOnError is being executed after the failure of a
\* continueOnError step.
LoopSkipsWitness ==
  /\ exec.pc = "reading" /\ exec.id = 2
  /\ results[1].status = "failure" /\ job.steps[1].continueOnError
  /\ ~job.steps[2].continueOnError

\* C15 -- a job status is reported only when every step has a result and no
\* command is in flight, and it is success exactly when every step that was
\* not skipped exited with 0 or is continueOnError, failure otherwise.
JobStatusFromSteps ==
  jobResult # "none" =>
    /\ exec.pc = "idle"
    /\ Len(results) = Len(job.steps)
    /\ \A k \in 1..Len(results) : results[k].status \in {"success", "failure", "skipped"}
    /\ jobResult \in {"success", "failure"}
    /\ jobResult = "success" <=>
         \A k \in 1..Len(results) :
           results[k].status # "skipped" =>
             (results[k].exitCode = 0 \/ job.steps[k].continueOnError)

\* A job reported success although a continueOnError step failed.
JobStatusWitness ==
  /\ jobResult = "success"
  /\ \E k \in 1..Len(results) : results[k].status = "failure"

\* C16 -- a command is spawned only when none is in flight and every earlier
\* step has its result; a chunk reaches the callback only while its command
\* is being read, before the result of its step is recorded.
StepsSequential ==
  [][/\ (exec'.pc = "reading" /\ exec'.id # exec.id) =>
          (exec.pc = "idle" /\ Len(results) = exec'.id - 1)
     /\ chunks' # chunks =>
          /\ Len(chunks') = Len(chunks) + 1
          /\ SubSeq(chunks', 1, Len(chunks)) = chunks
          /\ exec.pc = "reading"
          /\ chunks'[Len(chunks')].id = exec.id
          /\ Len(results) < exec.id
     /\ results' # results =>
          \A i \in 1..Len(chunks') : chunks'[i].id <= results'[Len(results')].id]_vars

\* The second step is running after chunks of both steps were delivered.
StepsSequentialWitness ==
  /\ exec.pc # "idle" /\ exec.id = 2 /\ Len(results) = 1
  /\ \E i, j \in 1..Len(chunks) : chunks[i].id = 1 /\ chunks[j].id = 2

\* The step is the return of executeCommand.
Returns == exec.pc = "awaitExit" /\ Len(results') = Len(results) + 1

\* C17 -- the response carries 124 exactly when the timer fired while the
\* command was running and the command was killed for it; a command that
\* exited by itself reports its own exit code.
TimeoutCodeOnlyIfKilled ==
  [][Returns =>
       LET response == results'[Len(results')]
       IN /\ response.exitCode = TimeoutExitCode <=> ~exec.selfExit
          /\ exec.selfExit => response.exitCode = exec.code]_vars

\* The data of the chunks delivered for step id on one stream, in order.
ChunkData(cs, id, target) ==
  LET sel == SelectSeq(cs, LAMBDA c : c.id = id /\ c.stream = target)
  IN [i \in 1..Len(sel) |-> sel[i].data]

AppendedFor(jobId) == SelectSeq(appended, LAMBDA a : a.job_id = jobId)

\* rows carries what was appended for jobId, call by call.
SameChunks(rows, jobId) ==
  /\ Len(rows) = Len(AppendedFor(jobId))
  /\ \A i \in 1..Len(rows) :
       /\ rows[i].job_id = jobId
       /\ rows[i].stream = AppendedFor(jobId)[i].stream
       /\ rows[i].content = AppendedFor(jobId)[i].content

\* C19 -- log ordering: getLogsForJob(jobId) returns exactly the chunks
\* appended for jobId, in the order they were appended, with strictly
\* increasing sequence numbers; no row is ever modified or removed.
LogOrdering ==
  /\ [](\A jobId \in LogJobs :
          LET rows == getLogsForJob(jobId, 0)
          IN /\ SameChunks(rows, jobId)
             /\ \A i, j \in 1..Len(rows) : i < j => rows[i].id < rows[j].id)
  /\ [][logRows \subseteq logRows']_vars

\* Appends for two jobs interleaved, two of them for the same job.
LogOrderingWitness ==
  /\ Len(appended) = 3
  /\ appended[1].job_id = 1 /\ appended[2].job_id = 2 /\ appended[3].job_id = 1
  /\ appended[1].content # appended[3].content

\* C20 -- log tail cursor: what the reader has received is always the first
\* chunks of its job, each once and in append order, and what its next read
\* returns is exactly the rest.
LogTailCursor ==
  /\ \A i, j \in 1..Len(received) : i < j => received[i].id < received[j].id
  /\ Len(received) <= Len(AppendedFor(ReaderJob))
  /\ SameChunks(received \o getLogsForJob(ReaderJob, since), ReaderJob)
  /\ \A i \in 1..Len(received) : received[i] \in logRows

\* The reader has got one chunk and holds its id as cursor; a chunk of
\* another job and a second chunk of its own job were appended since.
LogTailCursorWitness ==
  /\ Len(received) = 1 /\ since = 1
  /\ Len(appended) = 3 /\ appended[2].job_id # ReaderJob
  /\ appended[3].job_id = ReaderJob

(***************************************************************************)
(* Properties of the record store                                          *)
(***************************************************************************)
\* C21: once the stored status of a pipeline run is terminal, no later
\* operation of the store changes its status, started_at or finished_at.
TerminalRunFrozen ==
  [][\A id \in DOMAIN runTable :
       runTable[id].status \in Terminal =>
         /\ runTable'[id].status = runTable[id].status
         /\ runTable'[id].started_at = runTable[id].started_at
         /\ runTable'[id].finished_at = runTable[id].finished_at]_vars

\* The jobs that await execution, by rowid.
Awaiting == withStatus(jobTable, {"pending", "queued"})
CreatedFirst(sel) == CHOOSE i \in sel : \A j \in sel : i <= j
InCreationOrder(s) == \A i, j \in DOMAIN s : i < j => s[i] < s[j]

\* C22: the job queue is FIFO by creation: getNextPendingJob returns the
\* job created first among those that await execution, getPendingJobs(limit)
\* lists them in the order of their creation, and the head of
\* getPendingJobs is the job getNextPendingJob returns.
QueueFifo ==
  /\ \A next \in getNextPendingJob(jobTable) :
       IF Awaiting = {} THEN next = 0 ELSE next = CreatedFirst(Awaiting)
  /\ \A limit \in 0..MaxJobRows : \A list \in getPendingJobs(jobTable, limit) :
       /\ InCreationOrder(list)
       /\ \A next \in getNextPendingJob(jobTable) :
            IF list = <<>> THEN next = 0 ELSE list[1] = next

NonTerminalJobs(run) ==
  {i \in 1..Len(jobTable) :
     jobTable[i].pipeline_run_id = run /\ jobTable[i].status \notin Terminal}
AllPending(run) ==
  \A i \in 1..Len(jobTable) :
    jobTable[i].pipeline_run_id = run => jobTable[i].status = "pending"

\* C23: when the store is opened after a restart, every job left in a
\* non-terminal status is marked failure with exit code -1 and its run is
\* marked failure, unless all jobs of the run were pending; afterwards no
\* job and no run is in running status.
RestartRecovery ==
  [][(~reopened /\ reopened') =>
       /\ \A run \in DOMAIN runTable : \A i \in NonTerminalJobs(run) :
            ~AllPending(run) =>
              /\ jobTable'[i].status = "failure"
              /\ jobTable'[i].exit_code = -1
              /\ runTable'[run].status = "failure"
       /\ \A i \in 1..Len(jobTable') : jobTable'[i].status # "running"
       /\ \A run \in DOMAIN runTable' : runTable'[run].status # "running"]_vars

(***************************************************************************)
(* Properties of the network allocator                                     *)
(***************************************************************************)
\* An address of the /16 pool is base + offset, base being the address
\* BaseSubnet.0.0 and offset the 16-bit value of the last two octets.
IsAddress(octets) == Len(octets) = 4 /\ \A i \in 1..4 : octets[i] \in 0..255
InPool(octets) == IsAddress(octets) /\ SubSeq(octets, 1, 2) = BaseSubnet
offset(octets) == octets[3] * 256 + octets[4]
HostOf(k) == offset(configs[k].tap.hostIp)
GuestOf(k) == offset(configs[k].guestIp)

\* C24: slot k of the pool gets host address base + 4k + 1 and guest
\* address base + 4k + 2, which differ in the low two bits only, and two
\* distinct slots get disjoint /30 blocks: no address is shared.
SlotMapping ==
  \A k \in DOMAIN configs :
    /\ k \in 0 .. (PoolSlots - 1)
    /\ InPool(configs[k].tap.hostIp) /\ InPool(configs[k].guestIp)
    /\ HostOf(k) = 4 * k + 1
    /\ GuestOf(k) = 4 * k + 2
    /\ HostOf(k) \div 4 = GuestOf(k) \div 4
    /\ \A j \in DOMAIN configs \ {k} :
         /\ HostOf(k) \div 4 # HostOf(j) \div 4
         /\ {HostOf(k), GuestOf(k)} \cap {HostOf(j), GuestOf(j)} = {}

\* Slots 63 and 64, on the two sides of a change of the third octet, are
\* allocated together.
SlotMappingWitness ==
  /\ DOMAIN configs = {63, 64}
  /\ configs[63].guestIp = <<172, 16, 0, 254>>
  /\ configs[64].tap.hostIp = <<172, 16, 1, 1>>

\* C25: a releaseNetwork call for a configuration that was released before
\* with the same natInterface leaves the interfaces and the NAT and FORWARD
\* rules of the host as they are, also while other VMs are allocated.
ReleaseIdempotent ==
  [][\A k \in DOMAIN releases :
       (/\ k \in DOMAIN releases'
        /\ releases[k] # <<>>
        /\ Len(releases'[k]) = Len(releases[k]) + 1
        /\ releases'[k][Len(releases'[k])] = releases[k][Len(releases[k])])
       => UNCHANGED <<links, masquerade, forwardOut, forwardIn>>]_vars

(***************************************************************************)
(* Properties of the trigger matcher                                       *)
(***************************************************************************)
\* The kind of event a delivery is, "none" when it is none of the three.
KindOf(p) ==
  IF p.eventType \in {"push", "pull_request"} THEN p.eventType
  ELSE IF p.eventType = "create" /\ p.refType = "tag" THEN "tag" ELSE "none"
PushedBranch == IF payload.ref[1] = "refs/heads/" THEN payload.ref[2] ELSE <<>>
BranchIn(filter) ==
  PushedBranch # <<>> /\ \E pattern \in filter.list : matchesGlob(PushedBranch, pattern)
ChangedIn(filter) ==
  \E pattern \in filter.list : \E file \in payload.files : matchesGlob(file, pattern)
PositiveFiltersHold(rule) ==
  /\ (payload.eventType = "push" /\ PushedBranch # <<>> /\ rule.branches.given)
       => BranchIn(rule.branches)
  /\ (payload.eventType = "push" /\ rule.paths.given) => ChangedIn(rule.paths)
  /\ (payload.eventType = "pull_request" /\ rule.prEvents.given)
       => payload.action \in rule.prEvents.list

\* C26: shouldTriggerPipeline returns true only if some rule has the type
\* of the kind of the event and all its positive filters hold; a rule of
\* another type never matches a push or pull_request event.
TriggerOnlyByKind ==
  triggered = "yes" =>
    /\ \E i \in 1..Len(triggers) :
         triggers[i].type = KindOf(payload) /\ PositiveFiltersHold(triggers[i])
    /\ \A i \in 1..Len(triggers) :
         (payload.eventType \in {"push", "pull_request"}
            /\ triggers[i].type # payload.eventType)
           => ~matchesTrigger(payload, triggers[i])

\* C27: for a push event a rule whose branchesIgnore matches the pushed
\* branch, or whose pathsIgnore matches a changed file, does not match,
\* whatever its branches and paths lists say.
IgnoreDominates ==
  (triggered # "none" /\ payload.eventType = "push" /\ Len(triggers) = 1
     /\ (BranchIn(triggers[1].branchesIgnore) \/ ChangedIn(triggers[1].pathsIgnore)))
    => triggered = "no"

\* The pushed branch is on the whitelist and on the ignore list of a push
\* rule, and the rule did not match.
IgnoreDominatesWitness ==
  /\ triggered = "no" /\ payload.eventType = "push" /\ Len(triggers) = 1
  /\ triggers[1].type = "push"
  /\ BranchIn(triggers[1].branches) /\ BranchIn(triggers[1].branchesIgnore)

(***************************************************************************)
(* Properties of verifyGitHubSignature                                     *)
(***************************************************************************)
\* C28 as stated: the signature of the sender verifies, and after any
\* change of one byte of the body or of the header, without a header or
\* with another algorithm prefix the result is false.
SignatureAnyChangeFails ==
  verified # "none" => (verified = "yes" <=> tampered = "no")

\* The header differs from the one sent in the case of hexadecimal letters
\* of the digest only.
lower(c) == IF hexValue(c) = -1 THEN c ELSE HexLower[hexValue(c) + 1]
CaseChangeOnly ==
  /\ Len(signature) = Len(signed)
  /\ \A i \in 1..Len(signed) :
       IF i <= Len(Sha256) + 1 THEN signature[i] = signed[i]
       ELSE lower(signature[i]) = signed[i]

\* C28: the signature of the sender verifies; after a change of one byte of
\* the body, or of one byte of the header other than the case of a
\* hexadecimal letter of the digest, without a header or with another
\* algorithm prefix the result is false.
SignatureVerifies ==
  verified # "none" =>
    (verified = "yes" <=> (tampered = "no" \/ (tampered = "signature" /\ CaseChangeOnly)))

\* A letter of the digest arrived in upper case and the header was
\* accepted.
SignatureVerifiesWitness ==
  /\ verified = "yes" /\ tampered = "signature"
  /\ signature # signed /\ CaseChangeOnly

(***************************************************************************)
(* Properties of the run command                                           *)
(***************************************************************************)
SomeJobFailed == \E name \in CliJobs : runResults[name] = "failure"
BadArguments ==
  \/ ~runOptions.config
  \/ runOptions.pipelines = <<>>
  \/ runOptions.pipeline # "" /\ runOptions.pipeline \notin Range(runOptions.pipelines)
  \/ runOptions.job # -1 /\ runOptions.job \notin CliJobs
\* The dependsOn graph has a cycle within the jobs of names.
CycleWithin(names) ==
  LET step(S) == S \cup {<<a, c>> \in names \X names :
                           \E b \in names : <<a, b>> \in S /\ <<b, c>> \in S}
      direct == {<<a, b>> \in names \X names : b \in Range(jobDefs[a].dependsOn)}
      RECURSIVE closure(_)
      closure(S) == IF step(S) = S THEN S ELSE closure(step(S))
  IN \E a \in names : <<a, a>> \in closure(direct)
Selected == IF runOptions.job = -1 THEN CliJobs ELSE {runOptions.job}

\* C29 as stated: the run command exits with 1 exactly when a job ended in
\* failure or the user made an error (no config or pipeline, an unknown
\* pipeline or job, a dependency cycle in the pipeline), and with 0 only
\* when no job failed.
ExitCodeByPipeline ==
  exitCode # -1 =>
    /\ exitCode = 1 <=> (SomeJobFailed \/ BadArguments \/ CycleWithin(CliJobs))
    /\ exitCode = 0 => ~SomeJobFailed

\* C29: the run command exits with 1 exactly when a job ended in failure
\* or the user made an error (no config or pipeline, an unknown pipeline or
\* job, a dependency cycle among the jobs it is to run), and with 0 only
\* when no job failed.
ExitCodeBySelection ==
  exitCode # -1 =>
    /\ exitCode = 1 <=>
         (SomeJobFailed \/ BadArguments \/ (~BadArguments /\ CycleWithin(Selected)))
    /\ exitCode = 0 => ~SomeJobFailed

\* A job failed, a later one succeeded, and the command exited with 1.
ExitCodeWitness ==
  /\ exitCode = 1 /\ errorLogged = "Pipeline failed"
  /\ runResults[1] = "failure" /\ runResults[2] = "success"

\* C30: run --job <name> executes the named job, and no other job of the
\* pipeline, whether or not the named job declares dependsOn.
OnlyNamedJobRuns ==
  (exitCode = 0 /\ runOptions.job \in CliJobs) => ranJobs = {runOptions.job}

(***************************************************************************)
(* Properties of the loop over the jobs of a local run                     *)
(***************************************************************************)
Handled(name) == runResults[name] # "none"
DependencyNotSucceeded(name) ==
  \E i \in 1..Len(jobDefs[name].dependsOn) :
    \/ jobDefs[name].dependsOn[i] \notin CliJobs
    \/ runResults[jobDefs[name].dependsOn[i]] # "success"
position(name) == CHOOSE i \in 1..Len(sortedJobs) : sortedJobs[i] = name
\* Every dependency comes before its dependents in sortedJobs, each job
\* once, and the jobs handled are those before the position of the loop.
DependenciesFirst ==
  runIter > 0 =>
    /\ Range(sortedJobs) = CliJobs /\ Len(sortedJobs) = Cardinality(CliJobs)
    /\ \A name \in CliJobs : \A i \in 1..Len(jobDefs[name].dependsOn) :
         position(jobDefs[name].dependsOn[i]) < position(name)
    /\ \A name \in CliJobs : Handled(name) <=> position(name) < runIter
    /\ Cardinality(ranJobs) <= runIter - 1
RunFailure == (exitCode # -1 /\ errorLogged # "circular dependency") =>
                (exitCode = 1 <=> SomeJobFailed)

\* C31 as stated: the jobs of a local run are handled one at a time with
\* every dependency before its dependents; a job is skipped exactly when
\* one of its dependencies did not end in success, and runs otherwise, also
\* after an unrelated job has failed; the run fails when a job failed.
SkippedExactlyByDependency ==
  /\ DependenciesFirst
  /\ RunFailure
  /\ \A name \in CliJobs : Handled(name) =>
       (name \notin ranJobs <=> DependencyNotSucceeded(name))

\* C31: the jobs of a local run are handled one at a time with every
\* dependency before its dependents; a job with a dependency that did not
\* end in success is skipped, a job without a condition whose dependencies
\* all ended in success runs, also after an unrelated job has failed, and a
\* job is skipped otherwise only by its condition; the run fails when a job
\* failed.
SkippedByDependencyOrCondition ==
  /\ DependenciesFirst
  /\ RunFailure
  /\ \A name \in CliJobs : Handled(name) =>
       /\ DependencyNotSucceeded(name) => name \notin ranJobs /\ runResults[name] = "skipped"
       /\ (~DependencyNotSucceeded(name) /\ jobDefs[name].condition = "none")
            => name \in ranJobs
       /\ (~DependencyNotSucceeded(name) /\ name \notin ranJobs)
            => jobDefs[name].condition = "on_failure" /\ runResults[name] = "skipped"

\* Jobs [A, B(A), C(B), D] with A failing: B and C skipped, D success, and
\* the run failed.
FailureSkipWitness ==
  /\ jobDefs[1].dependsOn = <<>> /\ jobDefs[2].dependsOn = <<1>>
  /\ jobDefs[3].dependsOn = <<2>> /\ jobDefs[4].dependsOn = <<>>
  /\ runResults = <<"failure", "skipped", "skipped", "success">>
  /\ ranJobs = {1, 4}
  /\ exitCode = 1

(***************************************************************************)
(* Properties of configure                                                 *)
(***************************************************************************)
ConfigureOrder ==
  <<"setBootSource", "setMachineConfig", "setDrive", "setNetworkInterface", "setVsock",
    "setLogger", "setMetrics", "setMmdsConfig", "setBalloon">>
rank(method) == CHOOSE i \in 1..Len(ConfigureOrder) : ConfigureOrder[i] = method
\* call c comes before call d in the fixed sequence.
Before(c, d) == rank(c[1]) < rank(d[1]) \/ (rank(c[1]) = rank(d[1]) /\ c[2] < d[2])
\* The requests the configuration asks for.
Wanted ==
  {<<"setBootSource", 1>>, <<"setMachineConfig", 1>>}
    \cup {<<"setDrive", i>> : i \in 1..vmConfig.drives}
    \cup {<<"setNetworkInterface", i>> : i \in 1..vmConfig.network_interfaces}
    \cup (IF vmConfig.vsock THEN {<<"setVsock", 1>>} ELSE {})
    \cup (IF vmConfig.logger THEN {<<"setLogger", 1>>} ELSE {})
    \cup (IF vmConfig.metrics THEN {<<"setMetrics", 1>>} ELSE {})
    \cup (IF vmConfig.mmds_config THEN {<<"setMmdsConfig", 1>>} ELSE {})
    \cup (IF vmConfig.balloon THEN {<<"setBalloon", 1>>} ELSE {})

\* C32: create sends the requests of the configuration in the order boot
\* source, machine config, drives, network interfaces, vsock, logger,
\* metrics, MMDS, balloon; a failing request is the last one sent, every
\* request before it in the order was sent and none after it; when all
\* succeed all were sent and the instance is in state configuring.
ConfigureInOrder ==
  vmOp.op = "create" =>
    /\ Range(apiCalls) \subseteq Wanted
    /\ \A i, j \in 1..Len(apiCalls) : i < j => Before(apiCalls[i], apiCalls[j])
    /\ \A c \in Range(apiCalls) : \A d \in Wanted : Before(d, c) => d \in Range(apiCalls)
    /\ vmOp.err => apiCalls # <<>>
    /\ ~vmOp.err =>
         /\ Range(apiCalls) = Wanted
         /\ instances[vmOp.id].state = "configuring"

\* A full configuration was applied with all nine kinds of request.
ConfigureWitness ==
  /\ vmOp.op = "create" /\ ~vmOp.err
  /\ Len(apiCalls) = 9
  /\ instances[vmOp.id].state = "configuring"

(***************************************************************************)
(* Properties of the ownership of the hypervisor processes                 *)
(***************************************************************************)
Registered(p) ==
  \E id \in VmIds : instances[id].state # "none" /\ instances[id].process = p

\* C33: every hypervisor process that create has spawned and that has
\* neither been killed nor exited belongs to an instance registered in the
\* manager.
NoLeakedProcess == \A p \in ProcIds : procs[p] = "alive" => Registered(p)

(***************************************************************************)
(* Properties of the DAG under an executor                                 *)
(***************************************************************************)
DepStatuses(id) == {status[jobs[id][i]] : i \in 1..Len(jobs[id])}

\* C34: when ready nodes only are started and running nodes only are
\* completed, a node is ready, running or success only if all its
\* dependencies are success, and a pending node has no failed or skipped
\* dependency and a dependency that is still pending, ready or running.
NoStuckNode ==
  built = "ok" =>
    \A id \in Ids :
      /\ status[id] \in {"ready", "running", "success"} => DepStatuses(id) \subseteq {"success"}
      /\ status[id] = "pending" =>
           /\ DepStatuses(id) \cap {"failure", "skipped"} = {}
           /\ DepStatuses(id) \cap {"pending", "ready", "running"} # {}

\* A node waits with one dependency done and another one running, next to
\* a node that runs.
NoStuckNodeWitness ==
  /\ built = "ok"
  /\ \E id \in Ids :
       /\ status[id] = "pending"
       /\ DepStatuses(id) = {"success", "running"}

(***************************************************************************)
(* Properties of the network allocator shared by several VMs               *)
(***************************************************************************)
StillAllocated == {index \in DOMAIN configs : releases[index] = <<>>}
tapOf(index) == <<"tap", index>>

\* C35: a releaseNetwork call for one VM leaves the TAP device and the
\* forward rules of every other VM that is still allocated as they are, and
\* at least one masquerade rule for them.
NetworkIsolation ==
  [][\A index \in StillAllocated :
       (index \in StillAllocated' /\ DOMAIN links' # DOMAIN links) =>
         /\ tapOf(index) \in DOMAIN links'
         /\ links'[tapOf(index)] = links[tapOf(index)]
         /\ count(forwardOut', tapOf(index)) = count(forwardOut, tapOf(index))
         /\ count(forwardOut', tapOf(index)) >= 1
         /\ count(forwardIn', tapOf(index)) = count(forwardIn, tapOf(index))
         /\ count(forwardIn', tapOf(index)) >= 1
         /\ masquerade' >= 1]_vars

\* One of two VMs has been released with its NAT rules; the other one is
\* still allocated.
NetworkIsolationWitness ==
  /\ \E index \in DOMAIN releases : releases[index] = <<TRUE>>
  /\ Cardinality(StillAllocated) = 1
  /\ masquerade = 1

(***************************************************************************)
(* Properties of getParallelLayers                                         *)
(***************************************************************************)
\* The position of the layer that holds the job, 0 when none does.
layerOf(id) ==
  IF \E k \in 1..Len(layers) : id \in Range(layers[k])
  THEN CHOOSE k \in 1..Len(layers) : id \in Range(layers[k])
  ELSE 0

\* C36: for an accepted DAG getParallelLayers returns non-empty layers that
\* hold every node exactly once, every dependency of a node in an earlier
\* layer, and every node in the earliest layer that allows this: the first
\* one without dependencies, else the one after its last dependency.
LayersPartition ==
  layers # <<>> =>
    /\ \A k \in 1..Len(layers) : layers[k] # <<>> /\ Range(layers[k]) \subseteq Ids
    /\ \A id \in Ids :
         /\ Cardinality({k \in 1..Len(layers) : id \in Range(layers[k])}) = 1
         /\ Cardinality({i \in 1..Len(layers[layerOf(id)]) : layers[layerOf(id)][i] = id}) = 1
         /\ \A i \in 1..Len(jobs[id]) : layerOf(jobs[id][i]) < layerOf(id)
         /\ IF jobs[id] = <<>> THEN layerOf(id) = 1
            ELSE \E i \in 1..Len(jobs[id]) : layerOf(jobs[id][i]) = layerOf(id) - 1

\* A chain of three nodes in three layers, declared against the order of
\* the ids.
LayersWitness ==
  /\ Len(layers) = 3
  /\ layerOf(3) = 1 /\ layerOf(1) = 3

(***************************************************************************)
(* Properties of the cache manager                                         *)
(***************************************************************************)
\* The expiry time of the row has passed.
Passed(key) == cacheClock > cacheEntries[key].expires_at
Called(op) == cacheOp'.op = op /\ <<cacheOp, cacheEntries>>' # <<cacheOp, cacheEntries>>

\* C37: has(key) is true only for a row that exists and whose expiry time
\* has not passed; restore reports a hit only for such a row, and looks up
\* the primary key first and then the restoreKeys in their order.
ExpiredNeverHit ==
  [][/\ (Called("has") /\ cacheOp'.hit) =>
          cacheOp'.key \in DOMAIN cacheEntries /\ ~Passed(cacheOp'.key)
     /\ (Called("restore") /\ cacheOp'.hit) =>
          /\ cacheOp'.hitKey \in DOMAIN cacheEntries /\ ~Passed(cacheOp'.hitKey)
          /\ cacheOp'.tried[1] = cacheOp'.key
          /\ Len(cacheOp'.tried) = 1 <=> cacheOp'.hitKey = cacheOp'.key]_vars

\* C38: when save returns, the sizes of the rows that have not expired add
\* up to maxSize at most; the rows it deleted were deleted in the order of
\* their last access, the row just saved last.
SizeBound ==
  [][Called("save") =>
       /\ totalSize(cacheEntries', cacheClock') <= maxSize
       /\ \A i, j \in 1..Len(cacheOp'.evicted) :
            i < j => /\ cacheOp'.evicted[i][2] <= cacheOp'.evicted[j][2]
                     /\ cacheOp'.evicted[i][1] # cacheOp'.key]_vars

====
